---- MODULE Spec2Model ----
(***************************************************************************)
(* Model of the safe-mutation core of CAJanus: the per-OS fingerprint      *)
(* engines (WindowsFingerprintManager, MacOSFingerprintManager), the       *)
(* network managers and registry manager they drive, and the permission    *)
(* managers.  Strings the code inspects character by character (MAC        *)
(* addresses, GUIDs) are sequences of one-character strings.               *)
(***************************************************************************)
EXTENDS Integers, Sequences, FiniteSets, TLC

\* ---------------------------------------------------------------- bounds
NumAdapters == 2
MaxMacChanges == 1
MaxBackups == 1

\* ------------------------------------------------------- character level
\* Python None and an absent dict key, as values no string of the model equals
None == <<"None">>
NoKey == <<"NoKey">>

HexLower == {"a", "b", "c", "d", "e", "f"}
HexUpper == {"A", "B", "C", "D", "E", "F"}
Digits == {"0", "1", "2", "3", "4", "5", "6", "7", "8", "9"}
HexChars == Digits \cup HexLower \cup HexUpper

\* str.upper() on the characters the model's inputs are made of
UpperChar(c) ==
    CASE c = "a" -> "A" [] c = "b" -> "B" [] c = "c" -> "C"
      [] c = "d" -> "D" [] c = "e" -> "E" [] c = "f" -> "F"
      [] OTHER -> c

Upper(s) == [i \in 1..Len(s) |-> UpperChar(s[i])]

\* str.replace(ch, '') for a one-character ch
RemoveChar(s, ch) == SelectSeq(s, LAMBDA c : c # ch)

\* str.strip(chars): drop leading and trailing characters that are in chars
RECURSIVE LStrip(_, _)
LStrip(s, chars) ==
    IF s # << >> /\ Head(s) \in chars THEN LStrip(Tail(s), chars) ELSE s

RECURSIVE RStrip(_, _)
RStrip(s, chars) ==
    IF s # << >> /\ s[Len(s)] \in chars
    THEN RStrip(SubSeq(s, 1, Len(s) - 1), chars) ELSE s

Strip(s, chars) == RStrip(LStrip(s, chars), chars)

\* re.match(r'^([0-9A-Fa-f]{2}[:-]){5}([0-9A-Fa-f]{2})$', mac_address):
\* seventeen characters, a separator at every third position, hex digits
\* elsewhere; '$' also matches before one trailing newline.
ValidateMacAddress(mac_address) ==
    /\ \/ Len(mac_address) = 17
       \/ Len(mac_address) = 18 /\ mac_address[18] = "\n"
    /\ \A i \in 1..17 :
          IF i % 3 = 0 THEN mac_address[i] \in {":", "-"}
                       ELSE mac_address[i] \in HexChars

\* new_mac.replace(':', '').replace('-', '').upper()
FormatMac(new_mac) == Upper(RemoveChar(RemoveChar(new_mac, ":"), "-"))

\* uuid.UUID(hex): hex.strip('{}').replace('-', '') must be 32 hex digits;
\* a non-string argument raises TypeError instead of ValueError.
UuidHex(hex) == RemoveChar(Strip(hex, {"{", "}"}), "-")

UuidParses(hex) ==
    LET h == UuidHex(hex) IN
    /\ Len(h) = 32
    /\ \A i \in 1..32 : h[i] \in HexChars

\* ----------------------------------------------------------- input values
MacColon == <<"0", "2", ":", "1", "1", ":", "2", "2", ":",
               "a", "b", ":", "c", "d", ":", "e", "f">>
MacBad == <<"i", "n", "v", "a", "l", "i", "d", "_", "m", "a", "c">>
MacInputs == {MacColon, MacBad}

GuidValid == <<"1", "2", "3", "4", "5", "6", "7", "8", "-",
                "9", "a", "b", "c", "-", "4", "d", "e", "f", "-",
                "8", "0", "1", "2", "-",
                "3", "4", "5", "6", "7", "8", "9", "A", "B", "C", "D", "E">>
GuidBad == <<"t", "e", "s", "t", "-", "g", "u", "i", "d">>
GuidOriginal == <<"{", "0", "0", "0", "0", "0", "0", "0", "0", "-",
                   "0", "0", "0", "0", "-", "0", "0", "0", "0", "-",
                   "0", "0", "0", "0", "-",
                   "0", "0", "0", "0", "0", "0", "0", "0", "0", "0", "0", "1",
                   "}">>
GuidInputs == {GuidValid, GuidBad, None}

AdapterIds == 1..NumAdapters
\* an adapter id no discovery source lists
GhostId == 0
RequestIds == AdapterIds \cup {GhostId}

\* ------------------------------------------------------------------ state
VARIABLES
    platform,        \* "Windows" or "Darwin": the engine the factory bound
    isAdmin,         \* IsUserAnAdmin() / os.geteuid() == 0
    sudoOk,          \* macOS: `sudo -n echo test` returns 0
    ifconfigExec,    \* macOS: os.access('/sbin/ifconfig', X_OK)
    matched,         \* adapter -> the second discovery source has an entry for it
    networkAddress,  \* adapter -> MAC override in force (None: burned-in address)
    machineGuid,     \* Windows Cryptography\MachineGuid / macOS hardware UUID
    fpBackups,       \* fingerprint backup files written, oldest first
    regBackups,      \* registry-key backup files written, oldest first
    auditLog,        \* lines of audit.log, oldest first
    lastCall,        \* what the most recent engine call was given and did
    request,         \* the change-set handed to a stand-alone validation
    verdict,         \* the verdict that validation returned
    evaluated,       \* number of times the request has been validated
    riskTrace,       \* risk levels the last validation went through, in order
    result,          \* a ValidationResult object under construction
    textCall,        \* the MAC text function last called, with its arguments
    textResult,      \* what that call returned or raised
    auditEnabled,    \* config security.enable_audit_log
    auditLock,       \* AuditLogger.lock: the thread holding it, 0 when free
    auditPc,         \* thread -> where it is in its audit logger call
    auditRecord,     \* thread -> the record its call is writing
    cleanupLines,    \* cleanup_old_logs: the lines it read
    auditWritten,    \* the records whose append has completed
    callerSaw,       \* thread -> how its last audit logger call ended
    auditCalls,       \* number of audit logger calls started
    readCall, \* the audit log reader last called, with the file it reads
    readResult, \* the records that call returned
    regFiles, \* ids of the backup files in RegistryManager.backup_dir
    bakFiles, \* backup_<second>.bak files in the configured backup directory
    clock, \* the second datetime.now() falls in
    regCreated, \* number of registry backup ids handed out
    storeCall, \* what the most recent backup store call was given and did
    threeLevelConfirmation, \* config security.three_level_confirmation
    confirmDialog, \* the ThreeLevelConfirmationDialog of the MAC dialog
    macWorkerStart, \* how the last MacModificationWorker came to be started
    gui, \* the windows on screen and the workers their handlers hold
    runs, \* the worker runs started, in the order they were started
    signals \* worker signals queued for the GUI thread: run id and event

vars == <<platform, isAdmin, sudoOk, ifconfigExec, matched, networkAddress,
          machineGuid, fpBackups, regBackups, auditLog, lastCall,
          request, verdict, evaluated, riskTrace, result, textCall, textResult,
          auditEnabled, auditLock, auditPc, auditRecord, cleanupLines,
          auditWritten, callerSaw, auditCalls,
          readCall, readResult,
          regFiles, bakFiles, clock, regCreated, storeCall,
          threeLevelConfirmation, confirmDialog, macWorkerStart,
          gui, runs, signals>>

envVars == <<platform, isAdmin, sudoOk, ifconfigExec, matched>>
systemVars == <<networkAddress, machineGuid>>
storeVars == <<fpBackups, regBackups, auditLog>>
validationVars == <<request, verdict, evaluated, riskTrace, result>>
textVars == <<textCall, textResult>>
auditVars == <<auditEnabled, auditLock, auditPc, auditRecord, cleanupLines,
               auditWritten, callerSaw, auditCalls>>
readVars == <<readCall, readResult>>
backupVars == <<regFiles, bakFiles, clock, regCreated, storeCall>>
confirmVars == <<threeLevelConfirmation, confirmDialog, macWorkerStart>>
workerVars == <<gui, runs, signals>>

\* ------------------------------------------------------------ change-sets
MacChangeItems == [adapter_id : RequestIds, new_mac : MacInputs]

\* changes['mac_changes']: present says whether the key is in the dict
NoMacChanges == [present |-> FALSE, items |-> << >>]

\* a dict has one entry per key: the adapter ids of a mac_changes are
\* distinct, and the model inserts them in increasing order
MacChangeSeqs ==
    {s \in UNION {[1..n -> MacChangeItems] : n \in 0..MaxMacChanges} :
        \A i, j \in 1..Len(s) : i < j => s[i].adapter_id < s[j].adapter_id}

MacChangeChoices ==
    {[present |-> TRUE, items |-> s] : s \in MacChangeSeqs} \cup {NoMacChanges}

VolumeChange == <<"C", ":", "1">>

ChangeSets ==
    [mac_changes : MacChangeChoices,
     machine_guid : GuidInputs \cup {NoKey},
     hardware_uuid : {GuidValid, NoKey},
     volume_serial_changes : {VolumeChange, NoKey}]

\* the change-sets the engine calls are driven with: a MAC part with or
\* without a machine_guid, or one of the other two keys on its own
EngineChangeSets ==
    {c \in ChangeSets :
        /\ c.machine_guid # None
        /\ \/ c.hardware_uuid = NoKey /\ c.volume_serial_changes = NoKey
           \/ /\ c.mac_changes = NoMacChanges
              /\ c.machine_guid = NoKey
              /\ (c.hardware_uuid = NoKey) # (c.volume_serial_changes = NoKey)}

NoChanges ==
    [mac_changes |-> NoMacChanges, machine_guid |-> NoKey, hardware_uuid |-> NoKey,
     volume_serial_changes |-> NoKey]

HasMacChanges(changes) == changes.mac_changes.present

\* ------------------------------------------------------------ risk levels
RiskLevels == <<"low", "medium", "high", "critical">>
RiskRank(r) == CHOOSE i \in 1..4 : RiskLevels[i] = r

\* ---------------------------------------------------- permission managers
\* WindowsPermissionManager.check_admin_privileges /
\* MacOSPermissionManager.check_admin_privileges
CheckAdminPrivileges == isAdmin

WinRequiredPermissions(operation) ==
    CASE operation = "modify_mac_address" -> <<"admin", "registry_write">>
      [] operation = "modify_machine_guid" -> <<"admin", "registry_write">>
      [] operation = "modify_volume_serial" -> <<"admin", "disk_access">>
      [] operation = "delete_file" -> <<"file_write">>
      [] operation = "modify_registry" -> <<"admin", "registry_write">>
      [] OTHER -> << >>

WinValidatePermissions(operation) ==
    LET required == WinRequiredPermissions(operation) IN
    \A i \in 1..Len(required) :
        required[i] \in {"admin", "registry_write"} => CheckAdminPrivileges

MacRequiredPermissions(operation) ==
    CASE operation = "modify_mac_address" -> <<"sudo", "network_interface">>
      [] operation = "read_hardware_info" -> <<"system_info_read">>
      [] operation = "read_ioreg" -> <<"ioreg_read">>
      [] operation = "modify_network_config" -> <<"sudo", "network_config">>
      [] operation = "delete_file" -> <<"file_write">>
      [] operation = "access_system_info" -> <<"system_info_access">>
      [] OTHER -> << >>

MacValidatePermissions(operation) ==
    LET required == MacRequiredPermissions(operation) IN
    \A i \in 1..Len(required) :
        /\ required[i] = "sudo" => (sudoOk \/ CheckAdminPrivileges)
        /\ required[i] = "network_interface" => ifconfigExec

\* ------------------------------------------------------ adapter discovery
\* NetworkManager.get_network_adapters: every WMI adapter is listed and
\* can_modify says whether a registry entry matched it.
\* get_adapter_by_id returning None
NoAdapter == [found |-> FALSE, id |-> GhostId, can_modify |-> FALSE, registry_path |-> ""]

WinGetNetworkAdapters ==
    [a \in AdapterIds |->
        [found |-> TRUE, id |-> a, can_modify |-> matched[a],
         registry_path |-> IF matched[a] THEN "Class_key" ELSE ""]]

WinGetAdapterById(adapter_id) ==
    IF adapter_id \in DOMAIN WinGetNetworkAdapters
    THEN WinGetNetworkAdapters[adapter_id] ELSE NoAdapter

\* MacOSNetworkManager.get_network_adapters: an ifconfig interface without a
\* networksetup match makes networksetup_info.get(...) raise on None, and the
\* whole enumeration fails; interfaces without a MAC were filtered out
\* before, so can_modify (mac_address is not None) is true for all listed.
MacListingRaises == \E a \in AdapterIds : ~matched[a]

MacGetNetworkAdapters ==
    [a \in AdapterIds |->
        [found |-> TRUE, id |-> a, can_modify |-> TRUE, registry_path |-> ""]]

MacGetAdapterById(adapter_id) ==
    IF MacListingRaises THEN NoAdapter
    ELSE IF adapter_id \in DOMAIN MacGetNetworkAdapters
         THEN MacGetNetworkAdapters[adapter_id] ELSE NoAdapter

\* ------------------------------------------------------------- validation
\* ValidationResult.__init__
ValidationResultInit ==
    [is_valid |-> TRUE, risk_level |-> "low", errors |-> << >>, warnings |-> << >>,
     required_permissions |-> << >>]

\* add_error that appends and leaves is_valid alone
add_error_ValidKept(self, error) == [self EXCEPT !.errors = Append(@, error)]

\* ValidationResult.add_error
add_error(self, error) ==
    [self EXCEPT !.errors = Append(@, error), !.is_valid = FALSE]

\* ValidationResult.add_warning
add_warning(self, warning) == [self EXCEPT !.warnings = Append(@, warning)]

NewVerdict ==
    [valid |-> TRUE, warnings |-> << >>, errors |-> << >>, risk_level |-> "low"]

\* the dict returned from the except branch of validate_fingerprint_changes
RaisedVerdict ==
    [valid |-> FALSE, warnings |-> << >>, errors |-> <<"validation_raised">>,
     risk_level |-> "critical"]

AddError(v, e) == [v EXCEPT !.errors = Append(@, e), !.valid = FALSE]

RECURSIVE WinValidateMacChanges(_, _)
WinValidateMacChanges(items, v) ==
    IF items = << >> THEN v
    ELSE LET adapter == WinGetAdapterById(Head(items).adapter_id)
             v1 == IF ~adapter.found THEN AddError(v, "adapter_not_found")
                   ELSE IF ~adapter.can_modify
                        THEN AddError(v, "adapter_not_modifiable")
                   ELSE IF ~ValidateMacAddress(Head(items).new_mac)
                        THEN AddError(v, "invalid_mac")
                   ELSE [v EXCEPT !.warnings = Append(@, "mac_network_impact"),
                                  !.risk_level = IF @ = "low" THEN "medium" ELSE @]
         IN WinValidateMacChanges(Tail(items), v1)

\* the three per-kind checks of validate_fingerprint_changes (Windows), each
\* from the verdict the one before left
WinAfterMacCheck(changes) ==
    IF HasMacChanges(changes)
    THEN WinValidateMacChanges(changes.mac_changes.items, NewVerdict)
    ELSE NewVerdict

WinAfterGuidCheck(changes, v) ==
    IF changes.machine_guid = NoKey THEN v
    ELSE IF changes.machine_guid = None THEN RaisedVerdict
    ELSE IF UuidParses(changes.machine_guid)
         THEN [v EXCEPT !.warnings = Append(@, "guid_activation_impact"),
                        !.risk_level = "high"]
         ELSE AddError(v, "invalid_guid")

WinAfterVolumeCheck(changes, v) ==
    IF changes.volume_serial_changes = NoKey THEN v
    ELSE [AddError(v, "volume_not_implemented") EXCEPT !.risk_level = "critical"]

\* validate_fingerprint_changes (Windows) that accepts the GUID without
\* raising the risk level
WinValidateFingerprintChanges_GuidRiskKept(changes) ==
    LET v1 == IF HasMacChanges(changes)
              THEN WinValidateMacChanges(changes.mac_changes.items, NewVerdict)
              ELSE NewVerdict
        v2 == IF changes.machine_guid = NoKey THEN v1
              ELSE IF UuidParses(changes.machine_guid)
                   THEN [v1 EXCEPT !.warnings = Append(@, "guid_activation_impact")]
                   ELSE AddError(v1, "invalid_guid")
        v3 == IF changes.volume_serial_changes = NoKey THEN v2
              ELSE [AddError(v2, "volume_not_implemented")
                       EXCEPT !.risk_level = "critical"]
    IN IF changes.machine_guid = None THEN RaisedVerdict ELSE v3

\* WindowsFingerprintManager.validate_fingerprint_changes
WinValidateFingerprintChanges(changes) ==
    LET v1 == WinAfterMacCheck(changes)
        v2 == WinAfterGuidCheck(changes, v1)
        v3 == WinAfterVolumeCheck(changes, v2)
    IN IF changes.machine_guid = None THEN RaisedVerdict ELSE v3

RECURSIVE MacValidateMacChanges(_, _)
MacValidateMacChanges(items, v) ==
    IF items = << >> THEN v
    ELSE LET adapter == MacGetAdapterById(Head(items).adapter_id)
             v1 == IF ~adapter.found THEN AddError(v, "adapter_not_found")
                   ELSE IF ~adapter.can_modify
                        THEN AddError(v, "adapter_not_modifiable")
                   ELSE IF ~ValidateMacAddress(Head(items).new_mac)
                        THEN AddError(v, "invalid_mac")
                   ELSE [v EXCEPT !.warnings = Append(@, "mac_network_impact"),
                                  !.risk_level = IF @ = "low" THEN "medium" ELSE @]
         IN MacValidateMacChanges(Tail(items), v1)

\* the per-kind checks of validate_fingerprint_changes (macOS), each from the
\* verdict the one before left
MacAfterMacCheck(changes) ==
    IF HasMacChanges(changes)
    THEN MacValidateMacChanges(changes.mac_changes.items, NewVerdict)
    ELSE NewVerdict

MacAfterUuidCheck(changes, v) ==
    IF changes.hardware_uuid = NoKey THEN v
    ELSE [AddError(v, "hardware_uuid_unsupported") EXCEPT !.risk_level = "critical"]

\* the volume check written with the risk level of the GUID check
MacAfterVolumeCheck_RiskHigh(changes, v) ==
    IF changes.volume_serial_changes = NoKey THEN v
    ELSE [AddError(v, "volume_unsupported") EXCEPT !.risk_level = "high"]

MacAfterVolumeCheck(changes, v) ==
    IF changes.volume_serial_changes = NoKey THEN v
    ELSE [AddError(v, "volume_unsupported") EXCEPT !.risk_level = "critical"]

MacAfterPermissionCheck(changes, v) ==
    IF /\ HasMacChanges(changes)
       /\ changes.mac_changes.items # << >>
       /\ ~MacValidatePermissions("modify_mac_address")
    THEN AddError(v, "sudo_required")
    ELSE v

\* validate_fingerprint_changes (macOS) that only warns about volume changes
MacValidateFingerprintChanges_VolumeWarned(changes) ==
    LET v1 == IF HasMacChanges(changes)
              THEN MacValidateMacChanges(changes.mac_changes.items, NewVerdict)
              ELSE NewVerdict
        v2 == IF changes.hardware_uuid = NoKey THEN v1
              ELSE [AddError(v1, "hardware_uuid_unsupported")
                       EXCEPT !.risk_level = "critical"]
        v3 == IF changes.volume_serial_changes = NoKey THEN v2
              ELSE [v2 EXCEPT !.warnings = Append(@, "volume_unsupported")]
        v4 == IF /\ HasMacChanges(changes)
                 /\ changes.mac_changes.items # << >>
                 /\ ~MacValidatePermissions("modify_mac_address")
              THEN AddError(v3, "sudo_required")
              ELSE v3
    IN v4

\* MacOSFingerprintManager.validate_fingerprint_changes
MacValidateFingerprintChanges(changes) ==
    LET v1 == MacAfterMacCheck(changes)
        v2 == MacAfterUuidCheck(changes, v1)
        v3 == MacAfterVolumeCheck(changes, v2)
        v4 == MacAfterPermissionCheck(changes, v3)
    IN v4

ValidateFingerprintChanges(changes) ==
    IF platform = "Windows" THEN WinValidateFingerprintChanges(changes)
    ELSE MacValidateFingerprintChanges(changes)

\* validation_result['risk_level'] at the start of a validation and after
\* each per-kind check it gets to (uuid.UUID(None) raises in the GUID check,
\* and the except branch builds the verdict)
WinRiskTrace(changes) ==
    LET v1 == WinAfterMacCheck(changes)
        v2 == WinAfterGuidCheck(changes, v1)
        v3 == WinAfterVolumeCheck(changes, v2)
    IN IF changes.machine_guid = None
       THEN <<NewVerdict.risk_level, v1.risk_level, v2.risk_level>>
       ELSE <<NewVerdict.risk_level, v1.risk_level, v2.risk_level, v3.risk_level>>

MacRiskTrace(changes) ==
    LET v1 == MacAfterMacCheck(changes)
        v2 == MacAfterUuidCheck(changes, v1)
        v3 == MacAfterVolumeCheck(changes, v2)
        v4 == MacAfterPermissionCheck(changes, v3)
    IN <<NewVerdict.risk_level, v1.risk_level, v2.risk_level, v3.risk_level,
         v4.risk_level>>

RiskTrace(changes) ==
    IF platform = "Windows" THEN WinRiskTrace(changes) ELSE MacRiskTrace(changes)
\* ---------------------------------------------------- MAC text functions
MaxByte == 255

HexDigitsUpper == <<"0", "1", "2", "3", "4", "5", "6", "7", "8", "9",
                    "A", "B", "C", "D", "E", "F">>
HexDigitsLower == <<"0", "1", "2", "3", "4", "5", "6", "7", "8", "9",
                    "a", "b", "c", "d", "e", "f">>

\* f'{b:02X}' and f'{b:02x}'
FormatByteUpper(b) == <<HexDigitsUpper[(b \div 16) + 1], HexDigitsUpper[(b % 16) + 1]>>
FormatByteLower(b) == <<HexDigitsLower[(b \div 16) + 1], HexDigitsLower[(b % 16) + 1]>>

\* b | 0x02 and b & 0xFE on a byte
OrLocalBit(b) == IF (b \div 2) % 2 = 1 THEN b ELSE b + 2
ClearMulticastBit(b) == b - (b % 2)

\* ':'.join(mac_hex[i:i+2] for i in range(0, 12, 2)): slices past the end of
\* mac_hex are short or empty
RECURSIVE JoinPairs(_, _)
JoinPairs(mac_hex, i) ==
    LET pair == SubSeq(mac_hex, IF i <= Len(mac_hex) THEN i ELSE Len(mac_hex) + 1,
                       IF i + 1 <= Len(mac_hex) THEN i + 1 ELSE Len(mac_hex))
    IN IF i >= 11 THEN pair ELSE pair \o <<":">> \o JoinPairs(mac_hex, i + 2)

Returned(value) == [raised |-> "none", value |-> value]
Raised(error) == [raised |-> error, value |-> << >>]

\* the values random.randint(0, 255) hands out during one call: first for
\* the first draw, rest for each of the others
RandomDraws == [first : 0..MaxByte, rest : {0, 165, MaxByte}]

\* NetworkManager.generate_random_mac (Windows)
WinGenerateRandomMac(vendor_prefix, rnd) ==
    IF vendor_prefix # None /\ vendor_prefix # << >>
    THEN LET stripped == RemoveChar(RemoveChar(vendor_prefix, ":"), "-")
             prefix == SubSeq(stripped, 1, IF Len(stripped) < 6 THEN Len(stripped) ELSE 6)
             suffix == FormatByteUpper(rnd.first) \o FormatByteUpper(rnd.rest)
                          \o FormatByteUpper(rnd.rest)
         IN IF Len(prefix) # 6 THEN Raised("NetworkAdapterError")
            ELSE Returned(JoinPairs(prefix \o suffix, 1))
    ELSE LET first_byte == ClearMulticastBit(OrLocalBit(rnd.first))
             mac_hex == FormatByteUpper(first_byte) \o FormatByteUpper(rnd.rest)
                           \o FormatByteUpper(rnd.rest) \o FormatByteUpper(rnd.rest)
                           \o FormatByteUpper(rnd.rest) \o FormatByteUpper(rnd.rest)
         IN Returned(JoinPairs(mac_hex, 1))

\* MacOSNetworkManager.generate_random_mac: the suffix after a vendor prefix
\* is formatted in lower case
MacGenerateRandomMac(vendor_prefix, rnd) ==
    IF vendor_prefix # None /\ vendor_prefix # << >>
    THEN LET stripped == RemoveChar(RemoveChar(vendor_prefix, ":"), "-")
             prefix == SubSeq(stripped, 1, IF Len(stripped) < 6 THEN Len(stripped) ELSE 6)
             suffix == FormatByteLower(rnd.first) \o FormatByteLower(rnd.rest)
                          \o FormatByteLower(rnd.rest)
         IN IF Len(prefix) # 6 THEN Raised("NetworkAdapterError")
            ELSE Returned(JoinPairs(prefix \o suffix, 1))
    ELSE LET first_byte == ClearMulticastBit(OrLocalBit(rnd.first))
             mac_hex == FormatByteUpper(first_byte) \o FormatByteUpper(rnd.rest)
                           \o FormatByteUpper(rnd.rest) \o FormatByteUpper(rnd.rest)
                           \o FormatByteUpper(rnd.rest) \o FormatByteUpper(rnd.rest)
         IN Returned(JoinPairs(mac_hex, 1))

\* re.sub(r'[^0-9A-Fa-f]', '', mac)
KeepHex(mac) == SelectSeq(mac, LAMBDA c : c \in HexChars)

\* NetworkManager._normalize_mac_address
NormalizeMacAddress(mac) ==
    IF mac = << >> THEN Returned(<< >>)
    ELSE LET clean_mac == KeepHex(mac) IN
         IF Len(clean_mac) # 12 THEN Returned(mac)
         ELSE Returned(JoinPairs(Upper(clean_mac), 1))

\* MacAddressValidator.normalize_mac: in the pattern r'[:-.]' the range
\* ':'-'.' runs backwards, and re.sub raises re.error when it compiles it
normalize_mac(mac_address) == Raised("re.error")

\* the vendor_prefix arguments: none, empty, three OUI prefixes (a global
\* unicast one, a multicast one, a locally administered one), a short one
\* and one longer than three octets
VendorVMware == <<"0", "0", ":", "0", "C", ":", "2", "9">>
VendorMulticast == <<"0", "1", "-", "0", "0", "-", "5", "E">>
VendorLocal == <<"0", "2", ":", "0", "0", ":", "0", "0">>
VendorShort == <<"0", "0", ":", "0", "C">>
VendorLong == <<"0", "6", ":", "0", "0", ":", "0", "0", ":", "a", "a">>
VendorPrefixes == {None, << >>, VendorVMware, VendorMulticast, VendorLocal,
                   VendorShort, VendorLong}

MacDashUpper == <<"0", "2", "-", "1", "1", "-", "2", "2", "-",
                  "A", "B", "-", "C", "D", "-", "E", "F">>
MacCanonical == <<"0", "2", ":", "1", "1", ":", "2", "2", ":",
                  "A", "B", ":", "C", "D", ":", "E", "F">>
MacTexts == {MacColon, MacDashUpper, MacCanonical, MacBad, << >>}

NoRandomDraws == [first |-> 0, rest |-> 0]
NoTextCall == [fn |-> "none", arg |-> << >>, rnd |-> NoRandomDraws]
NoTextResult == [raised |-> "n/a", value |-> << >>,
                 again |-> [raised |-> "n/a", value |-> << >>]]

TextCalls ==
    {[fn |-> "generate_random_mac", arg |-> p, rnd |-> r] :
        p \in VendorPrefixes, r \in RandomDraws}
    \cup {[fn |-> f, arg |-> t, rnd |-> NoRandomDraws] :
             f \in {"_normalize_mac_address", "normalize_mac"}, t \in MacTexts}

\* the result r of a call, and of the same function applied to what it
\* returned
Twice(r, again) ==
    [raised |-> r.raised, value |-> r.value,
     again |-> IF r.raised = "none" THEN again
               ELSE [raised |-> "n/a", value |-> << >>]]

\* ------------------------------------------------------------ engine calls
\* A call threads a record m through its steps: the system values it has
\* written so far, the registry backups it has made, the steps it has taken
\* (events, in program order), whether it raised and what it returned.
\* An outcome record o fixes what the operating system answers during the
\* call: fp ("ok", "empty": the snapshot could not be assembled and {} is
\* written, "fail": the backup file cannot be written), regBackupOk and
\* nativeOk.
NoTarget == 0 - 1
GuidTarget == 0 - 2

Event(kind, target) == [kind |-> kind, target |-> target]

\* An answer the call never asks for is left at its default, so that no two
\* outcomes stand for the same run: a failed registry backup is never
\* followed by the native write, a failed fingerprint backup by neither.
Outcomes ==
    {o \in [fp : {"ok", "empty", "fail"}, regBackupOk : BOOLEAN, nativeOk : BOOLEAN] :
        /\ o.fp = "fail" => o.regBackupOk /\ o.nativeOk
        /\ ~o.regBackupOk => o.nativeOk}
\* the outcomes of a call that takes no fingerprint backup
DirectOutcomes == {o \in Outcomes : o.fp = "ok"}
FixedOutcome == [fp |-> "ok", regBackupOk |-> TRUE, nativeOk |-> TRUE]

StartCall ==
    [na |-> networkAddress, guid |-> machineGuid, reg |-> regBackups,
     fp |-> fpBackups, audit |-> << >>, events |-> << >>, raised |-> "none",
     returned |-> "n/a", results |-> << >>]

Emit(m, kind, target) == [m EXCEPT !.events = Append(@, Event(kind, target))]
Raise(m, error) == [m EXCEPT !.raised = error, !.returned = "n/a"]
Return(m, value) == [m EXCEPT !.returned = value]

\* the native calls that change the machine
NativeWriteKinds == {"SetValueEx", "DeleteValue", "ifconfig_ether",
                     "ifconfig_down", "ifconfig_up"}
\* every native call a mutating operation issues
NativeKinds == NativeWriteKinds \cup {"netsh_restart"}
BackupKinds == {"fp_backup", "reg_backup"}

\* RegistryManager.write_value(path, name, value, create_backup=True)
RegWriteValue(m, target, o) ==
    IF ~o.regBackupOk THEN Raise(Emit(m, "reg_backup_failed", target), "RegistryError")
    ELSE LET m1 == [Emit(m, "reg_backup", target) EXCEPT !.reg = @ + 1]
             m2 == Emit(m1, "SetValueEx", target)
         IN IF o.nativeOk THEN Return(m2, "True") ELSE Raise(m2, "RegistryError")

\* RegistryManager.delete_value(path, name, create_backup=True); valueExists
\* is false when DeleteValue raises FileNotFoundError
RegDeleteValue(m, target, valueExists, o) ==
    IF ~o.regBackupOk THEN Raise(Emit(m, "reg_backup_failed", target), "RegistryError")
    ELSE LET m1 == [Emit(m, "reg_backup", target) EXCEPT !.reg = @ + 1]
             m2 == Emit(m1, "DeleteValue", target)
         IN IF ~o.nativeOk THEN Raise(m2, "RegistryError")
            ELSE IF valueExists THEN Return(m2, "True") ELSE Return(m2, "False")

\* NetworkManager.modify_mac_address without the can_modify / registry_path
\* test
WinNetModifyMacAddress_NoCanModifyCheck(m, adapter_id, new_mac, o) ==
    LET adapter == WinGetAdapterById(adapter_id) IN
    IF ~ValidateMacAddress(new_mac) THEN Raise(m, "NetworkAdapterError")
    ELSE IF ~adapter.found THEN Raise(m, "NetworkAdapterError")
    ELSE LET w == RegWriteValue(m, adapter_id, o) IN
         IF w.raised # "none" THEN Raise(w, "NetworkAdapterError")
         ELSE Return([Emit(w, "netsh_restart", adapter_id)
                         EXCEPT !.na[adapter_id] = FormatMac(new_mac)], "True")

\* NetworkManager.modify_mac_address
WinNetModifyMacAddress(m, adapter_id, new_mac, o) ==
    LET adapter == WinGetAdapterById(adapter_id) IN
    IF ~ValidateMacAddress(new_mac) THEN Raise(m, "NetworkAdapterError")
    ELSE IF ~adapter.found THEN Raise(m, "NetworkAdapterError")
    ELSE IF ~adapter.can_modify \/ adapter.registry_path = ""
         THEN Raise(m, "NetworkAdapterError")
    ELSE LET w == RegWriteValue(m, adapter_id, o) IN
         IF w.raised # "none" THEN Raise(w, "NetworkAdapterError")
         ELSE Return([Emit(w, "netsh_restart", adapter_id)
                         EXCEPT !.na[adapter_id] = FormatMac(new_mac)], "True")

\* NetworkManager.restore_original_mac
WinNetRestoreOriginalMac(m, adapter_id, o) ==
    LET adapter == WinGetAdapterById(adapter_id) IN
    IF ~adapter.found \/ adapter.registry_path = ""
    THEN Raise(m, "NetworkAdapterError")
    ELSE LET d == RegDeleteValue(m, adapter_id, m.na[adapter_id] # None, o) IN
         IF d.raised # "none" THEN Raise(d, "NetworkAdapterError")
         ELSE Return([Emit(d, "netsh_restart", adapter_id)
                         EXCEPT !.na[adapter_id] = None], "True")

\* WindowsFingerprintManager.modify_mac_address
WinModifyMacAddress(m, adapter_id, new_mac, o) ==
    LET m1 == Emit(m, "perm_check", adapter_id) IN
    IF ~CheckAdminPrivileges THEN Raise(m1, "OperationError")
    ELSE IF ~WinValidatePermissions("modify_mac_address")
         THEN Raise(m1, "OperationError")
    ELSE LET r == WinNetModifyMacAddress(m1, adapter_id, new_mac, o) IN
         IF r.raised # "none" THEN Raise(r, "OperationError") ELSE r

\* WindowsFingerprintManager.restore_original_mac
WinRestoreOriginalMac(m, adapter_id, o) ==
    LET m1 == Emit(m, "perm_check", adapter_id) IN
    IF ~CheckAdminPrivileges THEN Raise(m1, "OperationError")
    ELSE LET r == WinNetRestoreOriginalMac(m1, adapter_id, o) IN
         IF r.raised # "none" THEN Raise(r, "OperationError") ELSE r

\* the GUID uuid.uuid4() hands out when the caller passes None
GuidGenerated == <<"a", "a", "a", "a", "a", "a", "a", "a", "-",
                    "b", "b", "b", "b", "-", "4", "c", "c", "c", "-",
                    "8", "d", "d", "d", "-",
                    "e", "e", "e", "e", "e", "e", "e", "e", "e", "e", "e", "e">>

\* WMIManager.modify_machine_guid
WmiModifyMachineGuid(m, new_guid, o) ==
    LET guid == IF new_guid = None THEN GuidGenerated ELSE new_guid IN
    IF ~UuidParses(guid) THEN Raise(m, "OperationError")
    ELSE LET w == RegWriteValue(m, GuidTarget, o) IN
         IF w.raised # "none" THEN Raise(w, "OperationError")
         ELSE Return([w EXCEPT !.guid = guid], "True")

\* WindowsFingerprintManager.modify_machine_guid
WinModifyMachineGuid(m, new_guid, o) ==
    LET m1 == Emit(m, "perm_check", GuidTarget) IN
    IF ~CheckAdminPrivileges THEN Raise(m1, "OperationError")
    ELSE IF ~WinValidatePermissions("modify_machine_guid")
         THEN Raise(m1, "OperationError")
    ELSE LET r == WmiModifyMachineGuid(m1, new_guid, o) IN
         IF r.raised # "none" THEN Raise(r, "OperationError") ELSE r

\* MacOSNetworkManager.modify_mac_address
MacNetModifyMacAddress(m, adapter_id, new_mac, o) ==
    LET adapter == MacGetAdapterById(adapter_id) IN
    IF ~ValidateMacAddress(new_mac) THEN Raise(m, "NetworkAdapterError")
    ELSE IF ~adapter.found THEN Raise(m, "NetworkAdapterError")
    ELSE IF ~adapter.can_modify THEN Raise(m, "NetworkAdapterError")
    ELSE LET m1 == Emit(m, "perm_check", adapter_id) IN
         IF ~MacValidatePermissions("modify_mac_address")
         THEN Raise(m1, "NetworkAdapterError")
         ELSE LET m2 == Emit(m1, "ifconfig_ether", adapter_id) IN
              IF o.nativeOk
              THEN Return([m2 EXCEPT !.na[adapter_id] = new_mac], "True")
              ELSE Raise(m2, "NetworkAdapterError")

\* MacOSNetworkManager.restore_original_mac with _restart_network_interface
MacNetRestoreOriginalMac(m, adapter_id, o) ==
    LET adapter == MacGetAdapterById(adapter_id) IN
    IF ~adapter.found THEN Raise(m, "NetworkAdapterError")
    ELSE LET m1 == Emit(Emit(m, "ifconfig_down", adapter_id),
                        "ifconfig_up", adapter_id)
         IN IF o.nativeOk
            THEN Return([m1 EXCEPT !.na[adapter_id] = None], "True")
            ELSE Return(m1, "False")

\* MacOSFingerprintManager.modify_mac_address
MacModifyMacAddress(m, adapter_id, new_mac, o) ==
    LET m1 == Emit(m, "perm_check", adapter_id) IN
    IF ~MacValidatePermissions("modify_mac_address")
    THEN Raise(m1, "OperationError")
    ELSE LET r == MacNetModifyMacAddress(m1, adapter_id, new_mac, o) IN
         IF r.raised # "none" THEN Raise(r, "OperationError") ELSE r

\* MacOSFingerprintManager.restore_original_mac
MacRestoreOriginalMac(m, adapter_id, o) ==
    LET m1 == Emit(m, "perm_check", adapter_id) IN
    IF ~MacValidatePermissions("modify_mac_address")
    THEN Raise(m1, "OperationError")
    ELSE LET r == MacNetRestoreOriginalMac(m1, adapter_id, o) IN
         IF r.raised # "none" THEN Raise(r, "OperationError") ELSE r

\* MacOSFingerprintManager.modify_machine_guid: always raises
MacModifyMachineGuid(m, new_guid, o) == Raise(m, "OperationError")
FpBackupKinds == {"fp_backup", "fp_backup_empty"}

\* backup_current_fingerprint that logs a failed backup and returns
BackupCurrentFingerprint_FailureSwallowed(m, o) ==
    IF o.fp = "fail"
    THEN Return(Emit(m, "fp_backup_failed", NoTarget), "backup_id")
    ELSE Return([Emit(m, IF o.fp = "ok" THEN "fp_backup" ELSE "fp_backup_empty",
                      NoTarget) EXCEPT !.fp = @ + 1], "backup_id")

\* backup_current_fingerprint (both engines): get_system_fingerprint returns
\* {} when assembling the snapshot fails, and the file is written all the same
BackupCurrentFingerprint(m, o) ==
    IF o.fp = "fail"
    THEN Raise(Emit(m, "fp_backup_failed", NoTarget), "OperationError")
    ELSE Return([Emit(m, IF o.fp = "ok" THEN "fp_backup" ELSE "fp_backup_empty",
                      NoTarget) EXCEPT !.fp = @ + 1], "backup_id")

Result(key, target, success) == [key |-> key, target |-> target, success |-> success]

\* an exception caught inside apply_fingerprint_changes: the call goes on
Caught(m, key, target) ==
    [m EXCEPT !.raised = "none", !.returned = "n/a",
              !.results = Append(@, Result(key, target, FALSE))]

Recorded(m, key, target) ==
    [m EXCEPT !.results = Append(@, Result(key, target, m.returned = "True")),
              !.returned = "n/a"]

RECURSIVE WinApplyMacChanges(_, _, _)
WinApplyMacChanges(items, m, o) ==
    IF items = << >> THEN m
    ELSE LET r == WinModifyMacAddress(m, Head(items).adapter_id,
                                      Head(items).new_mac, o)
             m1 == IF r.raised # "none"
                   THEN Caught(r, "mac", Head(items).adapter_id)
                   ELSE Recorded(r, "mac", Head(items).adapter_id)
         IN WinApplyMacChanges(Tail(items), m1, o)

\* WindowsFingerprintManager.apply_fingerprint_changes that computes the
\* verdict and goes on whatever it says
WinApplyFingerprintChanges_VerdictIgnored(changes, o) ==
    LET m0 == Emit(StartCall, "validate", NoTarget)
        b == BackupCurrentFingerprint(m0, o)
        m1 == IF HasMacChanges(changes)
              THEN WinApplyMacChanges(changes.mac_changes.items, b, o) ELSE b
        g == WinModifyMachineGuid(m1, changes.machine_guid, o)
        m2 == IF changes.machine_guid = NoKey THEN m1
              ELSE IF g.raised # "none" THEN Caught(g, "machine_guid", GuidTarget)
              ELSE Recorded(g, "machine_guid", GuidTarget)
    IN IF b.raised # "none" THEN Raise(b, "OperationError")
       ELSE Return(m2, "results")

\* WindowsFingerprintManager.apply_fingerprint_changes
WinApplyFingerprintChanges(changes, o) ==
    LET validation == WinValidateFingerprintChanges(changes)
        m0 == Emit(StartCall, "validate", NoTarget)
        b == BackupCurrentFingerprint(m0, o)
        m1 == IF HasMacChanges(changes)
              THEN WinApplyMacChanges(changes.mac_changes.items, b, o) ELSE b
        g == WinModifyMachineGuid(m1, changes.machine_guid, o)
        m2 == IF changes.machine_guid = NoKey THEN m1
              ELSE IF g.raised # "none" THEN Caught(g, "machine_guid", GuidTarget)
              ELSE Recorded(g, "machine_guid", GuidTarget)
    IN IF ~validation.valid THEN Raise(m0, "OperationError")
       ELSE IF b.raised # "none" THEN Raise(b, "OperationError")
       ELSE Return(m2, "results")

RECURSIVE MacApplyMacChanges(_, _, _)
MacApplyMacChanges(items, m, o) ==
    IF items = << >> THEN m
    ELSE LET r == MacModifyMacAddress(m, Head(items).adapter_id,
                                      Head(items).new_mac, o)
             m1 == IF r.raised # "none"
                   THEN Caught(r, "mac", Head(items).adapter_id)
                   ELSE Recorded(r, "mac", Head(items).adapter_id)
         IN MacApplyMacChanges(Tail(items), m1, o)

\* MacOSFingerprintManager.apply_fingerprint_changes
MacApplyFingerprintChanges(changes, o) ==
    LET validation == MacValidateFingerprintChanges(changes)
        m0 == Emit(StartCall, "validate", NoTarget)
        b == BackupCurrentFingerprint(m0, o)
        m1 == IF HasMacChanges(changes)
              THEN MacApplyMacChanges(changes.mac_changes.items, b, o) ELSE b
        m2 == IF changes.hardware_uuid = NoKey THEN m1
              ELSE [m1 EXCEPT !.results =
                        Append(@, Result("hardware_uuid", GuidTarget, FALSE))]
        m3 == IF changes.volume_serial_changes = NoKey THEN m2
              ELSE [m2 EXCEPT !.results =
                        Append(@, Result("volume_serial", NoTarget, FALSE))]
    IN IF ~validation.valid THEN Raise(m0, "OperationError")
       ELSE IF b.raised # "none" THEN Raise(b, "OperationError")
       ELSE Return(m3, "results")

\* ------------------------------------------------------------- UI workers
\* PlatformFactory.get_platform_capabilities()[feature]; a feature the table
\* of the platform does not list counts as not supported
PlatformCapabilities(p, feature) ==
    IF p = "Windows"
    THEN feature \in {"mac_address_modification", "volume_serial_modification",
                      "machine_guid_modification", "registry_access", "wmi_access",
                      "admin_elevation"}
    ELSE feature \in {"mac_address_modification", "ioreg_access", "sudo_elevation",
                      "sip_compatibility"}

\* MacOSFingerprintManager.get_supported_operations / get_unsupported_operations
MacSupportedOperations ==
    {"get_network_adapters", "get_mac_address", "modify_mac_address",
     "restore_original_mac", "generate_random_mac", "get_hardware_uuid",
     "get_platform_serial", "get_hardware_info", "get_system_fingerprint",
     "backup_current_fingerprint"}
MacUnsupportedOperations == {"modify_machine_guid", "modify_volume_serial"}

\* GuidValidator.is_valid_guid: 8-4-4-4-12 hex digits
IsValidGuid(guid_string) ==
    /\ \/ Len(guid_string) = 36
       \/ Len(guid_string) = 37 /\ guid_string[37] = "\n"
    /\ \A i \in 1..36 :
          IF i \in {9, 14, 19, 24} THEN guid_string[i] = "-"
          ELSE guid_string[i] \in HexChars

VolumeTarget == 0 - 3

\* an exception the worker catches: it reports failure and ends
Failed(m) == [m EXCEPT !.raised = "none", !.returned = "False"]

\* GuidModificationWorker.run
GuidModificationWorkerRun(new_guid, o) ==
    IF ~IsValidGuid(new_guid) THEN Failed(StartCall)
    ELSE LET m1 == Emit(StartCall, "engine_call", GuidTarget)
             r == IF platform = "Windows" THEN WinModifyMachineGuid(m1, new_guid, o)
                  ELSE MacModifyMachineGuid(m1, new_guid, o)
         IN IF r.raised # "none" THEN Failed(r)
            ELSE IF r.returned # "True" THEN Failed(r)
            ELSE IF Upper(r.guid) = Upper(new_guid) THEN Return(r, "True")
            ELSE Return(r, "False")

\* WindowsFingerprintManager.modify_volume_serial
WinModifyVolumeSerial(m) ==
    LET m1 == Emit(m, "perm_check", VolumeTarget) IN
    IF ~CheckAdminPrivileges THEN Raise(m1, "OperationError")
    ELSE IF ~WinValidatePermissions("modify_volume_serial")
         THEN Raise(m1, "OperationError")
    ELSE Return(m1, "False")

\* MacOSFingerprintManager.modify_volume_serial: always raises
MacModifyVolumeSerial(m) == Raise(m, "OperationError")

\* HardwareInfoWidget.modify_volume_serial with a well-formed serial; confirm
\* is the user's answer to the confirmation box.  Only the macOS engine has
\* get_supported_operations.
WidgetModifyVolumeSerial(confirm) ==
    LET m1 == IF platform = "Darwin"
              THEN Emit(StartCall, "supported_ops_check", VolumeTarget)
              ELSE StartCall
        m2 == Emit(m1, "engine_call", VolumeTarget)
        r == IF platform = "Windows" THEN WinModifyVolumeSerial(m2)
             ELSE MacModifyVolumeSerial(m2)
    IN IF /\ platform = "Darwin"
          /\ "modify_volume_serial" \notin MacSupportedOperations
          /\ "modify_volume_serial" \in MacUnsupportedOperations
       THEN Return(m1, "refused")
       ELSE IF ~confirm THEN Return(m1, "cancelled")
       ELSE IF r.raised # "none" THEN Failed(r)
       ELSE r

\* the backup file handed to a restore: readable says that it exists and
\* has the required keys; adapters are the ids under
\* network_config.adapters; has_guid says that hardware_info.machine_guid
\* (the GUID the machine had at first) is recorded
BackupFiles == [readable : BOOLEAN, adapters : {{}, AdapterIds}, has_guid : BOOLEAN]
NoBackupData == [readable |-> FALSE, adapters |-> {}, has_guid |-> FALSE]

\* RestoreWorker.run: the recorded adapters and GUID are logged, a report
\* with restored_items = [] is written and restore_completed(True) is emitted
RestoreWorkerRun(backup_data) ==
    IF ~backup_data.readable THEN Failed(StartCall)
    ELSE LET m1 == IF backup_data.adapters # {}
                   THEN Emit(StartCall, "log_adapters", NoTarget) ELSE StartCall
             m2 == IF backup_data.has_guid
                   THEN Emit(m1, "log_machine_guid", GuidTarget) ELSE m1
             m3 == Emit(m2, "write_restore_report", NoTarget)
         IN Return(m3, "True")

\* ----------------------------------------------------------- audit logger
NumThreads == 2
MaxAuditCalls == 3

AuditThreads == 1..NumThreads

\* a line of audit.log: old says that its timestamp is before the retention
\* cutoff when cleanup_old_logs filters it; serializable says that
\* json.dumps accepts its fields
AuditRecords ==
    [id : 1..MaxAuditCalls, kind : {"operation", "security_event"},
     old : BOOLEAN, serializable : BOOLEAN]
NoAuditRecord == [id |-> 0, kind |-> "none", old |-> FALSE, serializable |-> TRUE]

AuditIdle ==
    /\ auditLock = 0
    /\ auditPc = [t \in AuditThreads |-> "idle"]
    /\ auditRecord = [t \in AuditThreads |-> NoAuditRecord]
    /\ cleanupLines = [t \in AuditThreads |-> << >>]
    /\ auditWritten = {}
    /\ callerSaw = [t \in AuditThreads |-> "none"]
    /\ auditCalls = 0

\* the lines cleanup_old_logs keeps
KeptLines(lines) == SelectSeq(lines, LAMBDA r : ~r.old)

\* ------------------------------------------------------ audit log readers
MaxLines == 3
MaxLimit == 3

\* what a line of audit.log can be for a reader: an operation record, a
\* security event, text that is no JSON, JSON that is no object, an object
\* lacking a key of the record, an object whose timestamp is no ISO date
LineKinds ==
    {"operation", "security_event", "not_json", "not_object", "missing_key",
     "bad_timestamp"}

\* hit: the query text and the time range of a search match the line
LineTexts ==
    {[kind |-> k, hit |-> h] : k \in LineKinds, h \in BOOLEAN} \
        {[kind |-> k, hit |-> TRUE] : k \in LineKinds \ {"operation"}}

\* the files: line i carries i as its operation_id
AuditFiles ==
    UNION {{[i \in 1..n |-> [id |-> i, kind |-> f[i].kind, hit |-> f[i].hit]] :
               f \in [1..n -> LineTexts]} : n \in 0..MaxLines}

\* the body of the per-line try: the record is built, the line is passed
\* over with continue, or an exception leaves the body
ParseLine(line) ==
    CASE line.kind = "not_json" -> "JSONDecodeError"
      [] line.kind = "not_object" -> "AttributeError"
      [] line.kind = "security_event" -> "continue"
      [] line.kind = "missing_key" -> "KeyError"
      [] line.kind = "bad_timestamp" -> "ValueError"
      [] OTHER -> "record"

\* except (json.JSONDecodeError, KeyError): continue
Skipped(outcome) == outcome \in {"continue", "JSONDecodeError", "KeyError"}

\* lines[-limit:]
LastLines(lines, limit) ==
    IF limit = 0 \/ limit >= Len(lines) THEN lines
    ELSE SubSeq(lines, Len(lines) - limit + 1, Len(lines))

\* for line in reversed(...): any other exception reaches the outer except,
\* which returns []
RECURSIVE HistoryLoop(_, _, _)
HistoryLoop(lines, i, records) ==
    IF i = 0 THEN records
    ELSE LET outcome == ParseLine(lines[i]) IN
         IF outcome = "record"
         THEN HistoryLoop(lines, i - 1, Append(records, lines[i].id))
         ELSE IF Skipped(outcome) THEN HistoryLoop(lines, i - 1, records)
         ELSE << >>

get_operation_history(lines, limit) ==
    LET last == LastLines(lines, limit) IN HistoryLoop(last, Len(last), << >>)

\* for line in f: the same body, with the time and query filters before
\* the record is built
RECURSIVE SearchLoop(_, _, _)
SearchLoop(lines, i, records) ==
    IF i > Len(lines) THEN records
    ELSE LET outcome == ParseLine(lines[i]) IN
         IF outcome = "record"
         THEN SearchLoop(lines, i + 1,
                         IF lines[i].hit THEN Append(records, lines[i].id)
                         ELSE records)
         ELSE IF Skipped(outcome) THEN SearchLoop(lines, i + 1, records)
         ELSE << >>

search_logs(lines) == SearchLoop(lines, 1, << >>)

NoReadCall == [fn |-> "none", lines |-> << >>, limit |-> 0]
NoReadResult == [done |-> FALSE, records |-> << >>]
ReadReturned(records) == [done |-> TRUE, records |-> records]

ReadCalls ==
    {[fn |-> "get_operation_history", lines |-> f, limit |-> l] :
        f \in AuditFiles, l \in 0..MaxLimit}
    \cup {[fn |-> "search_logs", lines |-> f, limit |-> 0] : f \in AuditFiles}

ReadIdle ==
    /\ readCall = NoReadCall
    /\ readResult = NoReadResult

\* ------------------------------------------------------------ backup store
MaxClock == 2
MaxStoreBackups == 2

BackupIds == 1..MaxStoreBackups

\* RegistryManager.list_backups: one entry per file of backup_dir (the
\* files are those backup_registry_key wrote, each of them readable)
list_backups(files) == files

\* delete_backup that raises for an id without a file
delete_backup_MissingRaises(files, backup_id, unlinkOk) ==
    IF backup_id \in files /\ unlinkOk
    THEN [files |-> files \ {backup_id}, returned |-> "True", raised |-> "none"]
    ELSE [files |-> files, returned |-> "n/a", raised |-> "BackupError"]

\* RegistryManager.delete_backup: unlink when the file exists; a failing
\* unlink is caught and answered with False
delete_backup(files, backup_id, unlinkOk) ==
    IF backup_id \in files /\ unlinkOk
    THEN [files |-> files \ {backup_id}, returned |-> "True", raised |-> "none"]
    ELSE [files |-> files, returned |-> "False", raised |-> "none"]

\* BackupHistoryWidget.load_backup_history: one row per backup_*.bak file
\* of the configured backup directory
load_backup_history(files) == files

StoreCall(op, backup_id, before, after, returned, raised, deleted) ==
    [op |-> op, backup_id |-> backup_id, before |-> before, after |-> after,
     returned |-> returned, raised |-> raised, deleted |-> deleted]

NoStoreCall == StoreCall("none", 0, {}, {}, "n/a", "none", FALSE)

StoreIdle ==
    /\ regFiles = {}
    /\ bakFiles = {}
    /\ clock = 0
    /\ regCreated = 0
    /\ storeCall = NoStoreCall

\* ---------------------------------------------- three-level confirmation
\* the steps of the dialog, as indices of step_widgets
Steps == 0..2
FinalStep == 2
\* the step whose widget carries the requirement boxes (LEVEL_2)
RiskStep == 1

\* ThreeLevelConfirmationDialog.__init__ / create_steps, before show_step(0);
\* destroys: whether the toolkit destroys a step widget that the scroll
\* area gives up for another
NewConfirmDialog(destroys) ==
    [open |-> TRUE, destroys |-> destroys, current_step |-> 0, shown |-> 0,
     confirmed |-> [s \in Steps |-> FALSE],
     requirements_met |-> FALSE, risk_enabled |-> TRUE,
     destroyed |-> {}, prev_enabled |-> FALSE, next_enabled |-> FALSE,
     outcome |-> "none", started |-> FALSE]

NoConfirmDialog == [NewConfirmDialog(FALSE) EXCEPT !.open = FALSE]

\* update_button_states
update_button_states(d) ==
    [d EXCEPT !.prev_enabled = d.current_step > 0,
              !.next_enabled = d.confirmed[d.current_step]]

\* show_step(step_index): QScrollArea.setWidget takes the widget and, on
\* replacing it, destroys the one it held; setting a destroyed step widget
\* raises, after current_step was assigned and before the buttons are
\* updated
show_step(d, step_index) ==
    IF step_index \notin Steps THEN d
    ELSE IF step_index \in d.destroyed THEN [d EXCEPT !.current_step = step_index]
    ELSE update_button_states(
             [d EXCEPT !.current_step = step_index,
                       !.shown = step_index,
                       !.destroyed = IF d.destroys /\ d.shown # step_index
                                     THEN @ \cup {d.shown} ELSE @])

\* ConfirmationStepWidget.on_requirement_changed of the LEVEL_2 widget: the
\* risk check box is enabled exactly when every requirement box is checked
on_requirement_changed(d, all_requirements_met) ==
    [d EXCEPT !.requirements_met = all_requirements_met,
              !.risk_enabled = all_requirements_met]

\* ConfirmationStepWidget.on_confirmation_changed of the widget on screen,
\* then the dialog's update_button_states
on_confirmation_changed(d, checked) ==
    update_button_states([d EXCEPT !.confirmed[d.shown] = checked])

\* on_confirmation_completed that starts the worker whatever the answer
on_confirmation_completed_Always(confirmed) == TRUE

\* MacAddressDialog.on_confirmation_completed: is the worker started
on_confirmation_completed(confirmed) == confirmed

\* confirm_operation: emit confirmation_completed(True), accept()
confirm_operation(d) ==
    [d EXCEPT !.open = FALSE, !.outcome = "accepted",
              !.started = on_confirmation_completed(TRUE)]

\* next_step
next_step(d) ==
    IF ~d.confirmed[d.current_step] THEN d
    ELSE IF d.current_step < FinalStep THEN show_step(d, d.current_step + 1)
    ELSE confirm_operation(d)

\* previous_step
previous_step(d) ==
    IF d.current_step > 0 THEN show_step(d, d.current_step - 1) ELSE d

\* reject: emit confirmation_completed(False), QDialog.reject()
reject(d) ==
    [d EXCEPT !.open = FALSE, !.outcome = "rejected",
              !.started = on_confirmation_completed(FALSE)]

\* what execute_mac_modification was called on
WorkerStart(via, d) ==
    [via |-> via, current_step |-> d.current_step, confirmed |-> d.confirmed]

NoWorkerStart == WorkerStart("none", NoConfirmDialog)

ConfirmIdle ==
    /\ threeLevelConfirmation = TRUE
    /\ confirmDialog = NoConfirmDialog
    /\ macWorkerStart = NoWorkerStart

\* ------------------------------------------------------ background workers
\* worker runs started in one behaviour
MaxWorkerRuns == 2
RunIds == 1..MaxWorkerRuns

\* MacAddressValidator.is_valid_mac: any of the three patterns matches
is_valid_mac(mac_address) ==
    LET body == IF mac_address # << >> /\ mac_address[Len(mac_address)] = "\n"
                THEN SubSeq(mac_address, 1, Len(mac_address) - 1)
                ELSE mac_address
    IN \/ ValidateMacAddress(mac_address)
       \/ Len(body) = 12 /\ \A i \in 1..12 : body[i] \in HexChars
       \/ /\ Len(body) = 14
          /\ \A i \in 1..14 : IF i % 5 = 0 THEN body[i] = "."
                              ELSE body[i] \in HexChars

Progress(percent) == [op |-> "progress", percent |-> percent]
Statement(op) == [op |-> op, percent |-> 0]

\* MacModificationWorker.run, statement by statement
MacModificationWorkerProgram ==
    <<Progress(10), Statement("msleep"), Statement("validate"), Progress(30),
      Statement("create_manager"), Progress(50), Statement("msleep"),
      Statement("native"), Progress(80), Statement("msleep"),
      Statement("verify")>>

\* GuidModificationWorker.run, statement by statement
GuidModificationWorkerProgram ==
    <<Progress(10), Statement("msleep"), Statement("validate"), Progress(30),
      Statement("create_manager"), Progress(50), Statement("msleep"),
      Statement("read"), Progress(70), Statement("msleep"),
      Statement("native"), Progress(90), Statement("msleep"),
      Statement("verify")>>

\* BackupWorker.run: its emits, the write of the file, the closing
\* statements; a section that fails is only logged
BackupWorkerProgram ==
    <<Progress(10), Progress(20), Progress(30), Progress(40), Progress(60),
      Progress(80), Progress(90), Statement("save"), Statement("complete")>>

\* FingerprintWorker.run
FingerprintWorkerProgram ==
    <<Progress(10), Statement("create_manager"), Progress(30),
      Statement("collect"), Progress(50), Statement("collect"), Progress(70),
      Statement("collect"), Progress(90), Statement("collect"),
      Statement("complete")>>

Program(kind) ==
    CASE kind = "mac" -> MacModificationWorkerProgram
      [] kind = "guid" -> GuidModificationWorkerProgram
      [] kind = "backup" -> BackupWorkerProgram
      [] kind = "fingerprint" -> FingerprintWorkerProgram

MutationKinds == {"mac", "guid"}

ProgressEvent(percent) == [sig |-> "progress", percent |-> percent, success |-> FALSE]
CompletedEvent(success) == [sig |-> "completed", percent |-> 0, success |-> success]

\* closing statements that report completion first and progress last
Complete_ProgressLast(success) ==
    IF success THEN <<CompletedEvent(TRUE), ProgressEvent(100)>>
    ELSE <<CompletedEvent(FALSE)>>

\* the closing statements of a run: emit(100, ...) and the completion signal
\* on success, the completion (or error) signal alone from the except
\* branch; run() returns right after
Complete(success) ==
    IF success THEN <<ProgressEvent(100), CompletedEvent(TRUE)>>
    ELSE <<CompletedEvent(FALSE)>>

\* QThread.__init__ of a worker, then start()
NewRun(kind, target, value) ==
    [kind |-> kind, target |-> target, value |-> value, pc |-> 1,
     status |-> "running", emitted |-> << >>, wrote |-> FALSE,
     changed |-> FALSE, cancelled |-> FALSE, wroteAtCancel |-> FALSE,
     overlapped |-> \E i \in 1..Len(runs) :
                       /\ runs[i].kind \in {"mac", "guid"}
                       /\ kind \in {"mac", "guid", "restore"}
                       /\ runs[i].target = target
                       /\ runs[i].status = "running"]

\* a worker object that ended and was deleted (deleteLater(), or the last
\* reference to it dropped): its kind and target are all that is kept
Deleted(r) ==
    [r EXCEPT !.status = "deleted", !.value = << >>, !.pc = 0,
              !.emitted = << >>, !.wrote = FALSE, !.changed = FALSE,
              !.cancelled = FALSE, !.wroteAtCancel = FALSE]

\* the runs there are when the handler of a new user action starts: the
\* deletes deferred so far have been carried out
Collected(rs) ==
    [i \in 1..Len(rs) |-> IF rs[i].status = "running" THEN rs[i] ELSE Deleted(rs[i])]

\* a run emits events and ends
Finish(r, success) ==
    [r EXCEPT !.status = "finished", !.emitted = @ \o Complete(success)]

\* the statements that touch no system state
RunStatement(r, ok) ==
    LET s == Program(r.kind)[r.pc] IN
    CASE s.op = "progress" ->
            [r EXCEPT !.pc = @ + 1, !.emitted = Append(@, ProgressEvent(s.percent))]
      [] s.op = "validate" ->
            IF (r.kind = "mac" /\ is_valid_mac(r.value))
               \/ (r.kind = "guid" /\ IsValidGuid(r.value))
            THEN [r EXCEPT !.pc = @ + 1] ELSE Finish(r, FALSE)
      [] s.op \in {"collect", "save"} ->
            IF ok THEN [r EXCEPT !.pc = @ + 1] ELSE Finish(r, FALSE)
      [] s.op \in {"complete", "verify"} -> Finish(r, ok)
      [] OTHER -> [r EXCEPT !.pc = @ + 1]

\* fingerprint_manager.modify_machine_guid(self.new_guid) as the worker calls it
GuidNativeCall(new_guid, o) ==
    LET m1 == Emit(StartCall, "engine_call", GuidTarget) IN
    IF platform = "Windows" THEN WinModifyMachineGuid(m1, new_guid, o)
    ELSE MacModifyMachineGuid(m1, new_guid, o)

\* the call cut short after its first k events (QThread.terminate() ends the
\* thread wherever it is): backups written and values set so far stay
CutShort(m, k) ==
    LET done == SubSeq(m.events, 1, k)
        wrote == \E i \in 1..k : done[i].kind \in NativeWriteKinds
    IN [m EXCEPT !.events = done,
                 !.guid = IF wrote THEN @ ELSE machineGuid,
                 !.reg = IF \E i \in 1..k : done[i].kind = "reg_backup"
                         THEN @ ELSE regBackups,
                 !.raised = "none", !.returned = "n/a"]

Wrote(m) == \E i \in 1..Len(m.events) : m.events[i].kind \in NativeWriteKinds

\* QThread.terminate() that leaves the thread running
terminate_Ignored(r) == r

\* what a thread asked to end still runs where the request is acted on at
\* the next blocking call only (pthread_cancel): the emits and the format
\* check up to that call
RECURSIVE RunOn(_)
RunOn(r) ==
    IF r.status # "running" THEN r
    ELSE LET s == Program(r.kind)[r.pc] IN
         IF s.op = "progress" THEN RunOn(RunStatement(r, TRUE))
         ELSE IF s.op = "validate" /\ RunStatement(r, TRUE).status = "running"
              THEN RunOn(RunStatement(r, TRUE))
         ELSE r

\* QThread.terminate() followed by wait(): on Windows the thread runs no
\* statement more, elsewhere it ends at its next blocking call
terminate(r) ==
    [(IF platform = "Windows" THEN r ELSE RunOn(r)) EXCEPT !.status = "terminated"]

\* cancel_modification / cancel_operation on the worker the handler holds
cancel_modification(r) ==
    IF r.status = "running"
    THEN terminate([r EXCEPT !.cancelled = TRUE, !.wroteAtCancel = r.wrote])
    ELSE r

\* a progress dialog set WindowModal (Qt.ApplicationModal for exec_()) takes
\* the input of the window under it; shown without modality it takes none
Blocked_NonModal(visible) == FALSE

\* setWindowModality(Qt.WindowModal) then show(): the window under a visible
\* progress dialog receives no input
Blocked(visible) == visible

NoGui ==
    [dialog |-> "none", target |-> GhostId, value |-> << >>, worker |-> 0,
     progress |-> FALSE, main_progress |-> FALSE, fp_worker |-> 0,
     backup_btn |-> TRUE]

\* the main window takes input: no dialog was exec_()'d over it and no
\* progress dialog of its own is up
MainUsable(g) == g.dialog = "none" /\ ~Blocked(g.main_progress)

\* the open modification dialog takes input
DialogUsable(g) == g.dialog # "none" /\ ~Blocked(g.progress)

WorkerIdle ==
    /\ gui = NoGui
    /\ runs = << >>
    /\ signals = << >>

\* --------------------------------------------------------------- actions
\* what the most recent call was asked (adapter_id for a direct call;
\* requested, the adapter ids of its mac_changes, and valid, the verdict of
\* its validation, for an apply) and what it did
CallRecord(op, adapter_id, changes, v, m) ==
    [op |-> op, adapter_id |-> adapter_id,
     requested |-> {changes.mac_changes.items[i].adapter_id :
                        i \in 1..Len(changes.mac_changes.items)},
     valid |-> v.valid,
     events |-> m.events, raised |-> m.raised, returned |-> m.returned,
     results |-> m.results, audit |-> m.audit, backup_data |-> NoBackupData]

NoVerdict ==
    [valid |-> FALSE, warnings |-> << >>, errors |-> << >>, risk_level |-> "low"]

NoCall == CallRecord("none", GhostId, NoChanges, NoVerdict, StartCall)

\* what a finished call leaves behind
Commit(m) ==
    /\ m.fp <= MaxBackups
    /\ m.reg <= MaxBackups
    /\ networkAddress' = m.na
    /\ machineGuid' = m.guid
    /\ fpBackups' = m.fp
    /\ regBackups' = m.reg
    /\ auditLog' = auditLog \o m.audit

InitEnv ==
    /\ platform \in {"Windows", "Darwin"}
    /\ isAdmin \in BOOLEAN
    \* `sudo -n` never asks root for a password
    /\ sudoOk \in (IF platform = "Darwin"
                   THEN (IF isAdmin THEN {TRUE} ELSE BOOLEAN) ELSE {FALSE})
    /\ ifconfigExec \in (IF platform = "Darwin" THEN BOOLEAN ELSE {FALSE})
    /\ \E k \in {NumAdapters - 1, NumAdapters} :
          matched = [a \in AdapterIds |-> a <= k]
    /\ networkAddress = [a \in AdapterIds |-> None]
    /\ machineGuid = GuidOriginal
    /\ fpBackups = 0
    /\ regBackups = 0
    /\ auditLog = << >>
    /\ lastCall = NoCall

Init ==
    /\ InitEnv
    /\ request = NoChanges
    /\ verdict = NoVerdict
    /\ evaluated = 0
    /\ riskTrace = << >>
    /\ result = ValidationResultInit
    /\ textCall = NoTextCall
    /\ textResult = NoTextResult
    /\ auditEnabled = TRUE
    /\ AuditIdle
    /\ ReadIdle
    /\ StoreIdle
    /\ ConfirmIdle
    /\ WorkerIdle

\* apply_fingerprint_changes(changes)
Apply ==
    \E changes \in EngineChangeSets :
        LET v == ValidateFingerprintChanges(changes) IN
        \E o \in (IF v.valid THEN Outcomes ELSE {FixedOutcome}) :
            LET m == IF platform = "Windows"
                     THEN WinApplyFingerprintChanges(changes, o)
                     ELSE MacApplyFingerprintChanges(changes, o)
            IN /\ Commit(m)
               /\ lastCall' = CallRecord("apply", GhostId, changes, v, m)
               /\ UNCHANGED <<envVars, validationVars, textVars, auditVars, readVars, backupVars, confirmVars, workerVars>>

\* modify_mac_address(adapter_id, new_mac), called on the engine directly
ModifyMac ==
    \E adapter_id \in RequestIds, new_mac \in MacInputs, o \in DirectOutcomes :
        LET m == IF platform = "Windows"
                 THEN WinModifyMacAddress(StartCall, adapter_id, new_mac, o)
                 ELSE MacModifyMacAddress(StartCall, adapter_id, new_mac, o)
        IN /\ Commit(m)
           /\ lastCall' = CallRecord("modify_mac", adapter_id, NoChanges,
                                     NoVerdict, m)
           /\ UNCHANGED <<envVars, validationVars, textVars, auditVars, readVars, backupVars, confirmVars, workerVars>>

\* restore_original_mac(adapter_id), called on the engine directly
RestoreMac ==
    \E adapter_id \in RequestIds, o \in DirectOutcomes :
        LET m == IF platform = "Windows"
                 THEN WinRestoreOriginalMac(StartCall, adapter_id, o)
                 ELSE MacRestoreOriginalMac(StartCall, adapter_id, o)
        IN /\ Commit(m)
           /\ lastCall' = CallRecord("restore_mac", adapter_id, NoChanges,
                                     NoVerdict, m)
           /\ UNCHANGED <<envVars, validationVars, textVars, auditVars, readVars, backupVars, confirmVars, workerVars>>

\* modify_machine_guid(new_guid), called on the engine directly
ModifyGuid ==
    \E new_guid \in GuidInputs, o \in DirectOutcomes :
        LET m == IF platform = "Windows"
                 THEN WinModifyMachineGuid(StartCall, new_guid, o)
                 ELSE MacModifyMachineGuid(StartCall, new_guid, o)
        IN /\ Commit(m)
           /\ lastCall' = CallRecord("modify_guid", GhostId, NoChanges,
                                     NoVerdict, m)
           /\ UNCHANGED <<envVars, validationVars, textVars, auditVars, readVars, backupVars, confirmVars, workerVars>>

\* the GUID dialog's worker, started with the GUID the user entered
UiModifyGuid ==
    \E new_guid \in {GuidValid, GuidBad}, o \in DirectOutcomes :
        LET m == GuidModificationWorkerRun(new_guid, o)
        IN /\ Commit(m)
           /\ lastCall' = CallRecord("ui_modify_guid", GhostId, NoChanges,
                                     NoVerdict, m)
           /\ UNCHANGED <<envVars, validationVars, textVars, auditVars, readVars, backupVars, confirmVars, workerVars>>

\* the hardware widget's "modify volume serial" button
UiModifyVolumeSerial ==
    \E confirm \in BOOLEAN :
        LET m == WidgetModifyVolumeSerial(confirm)
        IN /\ Commit(m)
           /\ lastCall' = CallRecord("ui_modify_volume", GhostId, NoChanges,
                                     NoVerdict, m)
           /\ UNCHANGED <<envVars, validationVars, textVars, auditVars, readVars, backupVars, confirmVars, workerVars>>

\* the backup widget's restore of a chosen backup file
UiRestoreBackup ==
    \E backup_data \in BackupFiles :
        LET m == RestoreWorkerRun(backup_data)
        IN /\ Commit(m)
           /\ lastCall' = [CallRecord("ui_restore", GhostId, NoChanges, NoVerdict, m)
                              EXCEPT !.backup_data = backup_data]
           /\ UNCHANGED <<envVars, validationVars, textVars, auditVars, readVars, backupVars, confirmVars, workerVars>>

Next ==
    \/ Apply \/ ModifyMac \/ RestoreMac \/ ModifyGuid
    \/ UiModifyGuid \/ UiModifyVolumeSerial \/ UiRestoreBackup

Spec == Init /\ [][Next]_vars

\* ------------------------------------------- validation as a pure function
\* The verdict of validate_fingerprint_changes depends on the change-set and
\* on what discovery and the permission checks answer; SpecValidate draws
\* both at the start and applies the function.
InitValidate ==
    /\ InitEnv
    /\ request \in ChangeSets
    /\ verdict = NoVerdict
    /\ evaluated = 0
    /\ riskTrace = << >>
    /\ result = ValidationResultInit
    /\ textCall = NoTextCall
    /\ textResult = NoTextResult
    /\ auditEnabled = TRUE
    /\ AuditIdle
    /\ ReadIdle
    /\ StoreIdle
    /\ ConfirmIdle
    /\ WorkerIdle

MaxEvaluations == 2

\* a validation that takes a fingerprint backup on its way
EvaluateValidate_TakesBackup ==
    /\ evaluated < MaxEvaluations
    /\ verdict' = ValidateFingerprintChanges(request)
    /\ riskTrace' = RiskTrace(request)
    /\ evaluated' = evaluated + 1
    /\ fpBackups' = fpBackups + 1
    /\ UNCHANGED <<envVars, systemVars, regBackups, auditLog, lastCall, request,
                   result, textVars, auditVars, readVars, backupVars, confirmVars, workerVars>>

\* validate_fingerprint_changes(request), called on its own
EvaluateValidate ==
    /\ evaluated < MaxEvaluations
    /\ verdict' = ValidateFingerprintChanges(request)
    /\ riskTrace' = RiskTrace(request)
    /\ evaluated' = evaluated + 1
    /\ UNCHANGED <<envVars, systemVars, storeVars, lastCall, request, result,
                   textVars, auditVars, readVars, backupVars, confirmVars, workerVars>>

MaxMessages == 2

\* result.add_error(error)
AddErrorCall ==
    /\ Len(result.errors) + Len(result.warnings) < MaxMessages
    /\ result' = add_error(result, "error")
    /\ UNCHANGED <<envVars, systemVars, storeVars, lastCall, request, verdict,
                   evaluated, riskTrace, textVars, auditVars, readVars, backupVars, confirmVars, workerVars>>

\* result.add_warning(warning)
AddWarningCall ==
    /\ Len(result.errors) + Len(result.warnings) < MaxMessages
    /\ result' = add_warning(result, "warning")
    /\ UNCHANGED <<envVars, systemVars, storeVars, lastCall, request, verdict,
                   evaluated, riskTrace, textVars, auditVars, readVars, backupVars, confirmVars, workerVars>>

NextValidate == EvaluateValidate \/ AddErrorCall \/ AddWarningCall

SpecValidate == InitValidate /\ [][NextValidate]_vars

\* ------------------------------------------ MAC text as pure functions
\* SpecText draws a call of one of the MAC text functions with its
\* arguments and random draws, and applies the function.
InitText ==
    /\ platform \in {"Windows", "Darwin"}
    /\ isAdmin = TRUE
    /\ sudoOk = (platform = "Darwin")
    /\ ifconfigExec = (platform = "Darwin")
    /\ matched = [a \in AdapterIds |-> TRUE]
    /\ networkAddress = [a \in AdapterIds |-> None]
    /\ machineGuid = GuidOriginal
    /\ fpBackups = 0
    /\ regBackups = 0
    /\ auditLog = << >>
    /\ lastCall = NoCall
    /\ request = NoChanges
    /\ verdict = NoVerdict
    /\ evaluated = 0
    /\ riskTrace = << >>
    /\ result = ValidationResultInit
    /\ textCall \in TextCalls
    /\ textResult = NoTextResult
    /\ auditEnabled = TRUE
    /\ AuditIdle
    /\ ReadIdle
    /\ StoreIdle
    /\ ConfirmIdle
    /\ WorkerIdle

\* generate_random_mac(vendor_prefix)
GenerateRandomMac ==
    /\ textCall.fn = "generate_random_mac"
    /\ textResult = NoTextResult
    /\ textResult' =
          Twice(IF platform = "Windows"
                THEN WinGenerateRandomMac(textCall.arg, textCall.rnd)
                ELSE MacGenerateRandomMac(textCall.arg, textCall.rnd),
                NoTextResult.again)
    /\ UNCHANGED <<envVars, systemVars, storeVars, lastCall, validationVars, textCall,
                 auditVars, readVars, backupVars, confirmVars, workerVars>>

\* NetworkManager._normalize_mac_address(mac), and again on what it returned
NormalizeMacAddressCall ==
    /\ textCall.fn = "_normalize_mac_address"
    /\ textResult = NoTextResult
    /\ LET r == NormalizeMacAddress(textCall.arg) IN
       textResult' = Twice(r, NormalizeMacAddress(r.value))
    /\ UNCHANGED <<envVars, systemVars, storeVars, lastCall, validationVars, textCall,
                 auditVars, readVars, backupVars, confirmVars, workerVars>>

\* MacAddressValidator.normalize_mac(mac_address), and again on what it
\* returned
NormalizeMacCall ==
    /\ textCall.fn = "normalize_mac"
    /\ textResult = NoTextResult
    /\ LET r == normalize_mac(textCall.arg) IN
       textResult' = Twice(r, normalize_mac(r.value))
    /\ UNCHANGED <<envVars, systemVars, storeVars, lastCall, validationVars, textCall,
                 auditVars, readVars, backupVars, confirmVars, workerVars>>

NextText == GenerateRandomMac \/ NormalizeMacAddressCall \/ NormalizeMacCall

SpecText == InitText /\ [][NextText]_vars

\* -------------------------------------------- audit logger under threads
\* Threads call log_operation, log_security_event and cleanup_old_logs on
\* the one AuditLogger; a step is what a thread does between two points
\* where another thread can run.
InitAudit ==
    /\ platform \in {"Windows", "Darwin"}
    /\ isAdmin = TRUE
    /\ sudoOk = (platform = "Darwin")
    /\ ifconfigExec = (platform = "Darwin")
    /\ matched = [a \in AdapterIds |-> TRUE]
    /\ networkAddress = [a \in AdapterIds |-> None]
    /\ machineGuid = GuidOriginal
    /\ fpBackups = 0
    /\ regBackups = 0
    /\ auditLog = << >>
    /\ lastCall = NoCall
    /\ request = NoChanges
    /\ verdict = NoVerdict
    /\ evaluated = 0
    /\ riskTrace = << >>
    /\ result = ValidationResultInit
    /\ textCall = NoTextCall
    /\ textResult = NoTextResult
    /\ auditEnabled \in BOOLEAN
    /\ AuditIdle
    /\ ReadIdle
    /\ StoreIdle
    /\ ConfirmIdle
    /\ WorkerIdle

auditFrame ==
    <<envVars, systemVars, fpBackups, regBackups, lastCall, validationVars,
      textVars, auditEnabled, readVars, backupVars, confirmVars, workerVars>>

\* log_operation / log_security_event up to `with self.lock`: return when
\* the audit log is switched off, else take the lock
LogEnter(t, kind) ==
    /\ auditPc[t] = "idle"
    /\ auditCalls < MaxAuditCalls
    /\ auditCalls' = auditCalls + 1
    /\ IF ~auditEnabled
       THEN /\ callerSaw' = [callerSaw EXCEPT ![t] = "returned"]
            /\ UNCHANGED <<auditLock, auditPc, auditRecord>>
       ELSE /\ auditLock = 0
            /\ auditLock' = t
            /\ auditPc' = [auditPc EXCEPT ![t] = "locked"]
            /\ \E old \in BOOLEAN, serializable \in BOOLEAN :
                  auditRecord' = [auditRecord EXCEPT ![t] =
                      [id |-> auditCalls + 1, kind |-> kind, old |-> old,
                       serializable |-> serializable]]
            /\ callerSaw' = [callerSaw EXCEPT ![t] = "none"]
    /\ UNCHANGED <<auditLog, cleanupLines, auditWritten, auditFrame>>

LogOperation == \E t \in AuditThreads : LogEnter(t, "operation")

LogSecurityEvent == \E t \in AuditThreads : LogEnter(t, "security_event")

\* inside the lock: json.dumps raises on a record it cannot serialize, and
\* the with statement releases the lock on the way to the except branch;
\* else audit_logger.info appends the line (written), or the handler's
\* emit fails and logging.Handler.handleError swallows the error
LogWrite ==
    \E t \in AuditThreads :
        /\ auditPc[t] = "locked"
        /\ auditLock' = 0
        /\ IF ~auditRecord[t].serializable
           THEN /\ auditPc' = [auditPc EXCEPT ![t] = "except"]
                /\ UNCHANGED <<auditLog, auditWritten, callerSaw>>
           ELSE /\ auditPc' = [auditPc EXCEPT ![t] = "idle"]
                /\ callerSaw' = [callerSaw EXCEPT ![t] = "returned"]
                /\ \E written \in BOOLEAN :
                      IF written
                      THEN /\ auditLog' = Append(auditLog, auditRecord[t])
                           /\ auditWritten' = auditWritten \cup {auditRecord[t]}
                      ELSE UNCHANGED <<auditLog, auditWritten>>
        /\ UNCHANGED <<auditRecord, cleanupLines, auditCalls, auditFrame>>

\* the except branch: JanusLogger("audit_error") sets up a file handler of
\* its own and raises ConfigurationError when that fails
LogExcept ==
    \E t \in AuditThreads, errorLoggerOk \in BOOLEAN :
        /\ auditPc[t] = "except"
        /\ auditPc' = [auditPc EXCEPT ![t] = "idle"]
        /\ callerSaw' = [callerSaw EXCEPT ![t] =
              IF errorLoggerOk THEN "returned" ELSE "ConfigurationError"]
        /\ UNCHANGED <<auditLog, auditLock, auditRecord, cleanupLines,
                       auditWritten, auditCalls, auditFrame>>

\* cleanup_old_logs up to the end of its read of audit.log
CleanupRead ==
    \E t \in AuditThreads :
        /\ auditPc[t] = "idle"
        /\ auditCalls < MaxAuditCalls
        /\ auditCalls' = auditCalls + 1
        /\ cleanupLines' = [cleanupLines EXCEPT ![t] = auditLog]
        /\ auditPc' = [auditPc EXCEPT ![t] = "cleanup_read"]
        /\ callerSaw' = [callerSaw EXCEPT ![t] = "none"]
        /\ UNCHANGED <<auditLog, auditLock, auditRecord, auditWritten, auditFrame>>

\* cleanup_old_logs: filter the lines read and write them back
CleanupWrite ==
    \E t \in AuditThreads :
        /\ auditPc[t] = "cleanup_read"
        /\ auditLog' = KeptLines(cleanupLines[t])
        /\ cleanupLines' = [cleanupLines EXCEPT ![t] = << >>]
        /\ auditPc' = [auditPc EXCEPT ![t] = "idle"]
        /\ callerSaw' = [callerSaw EXCEPT ![t] = "returned"]
        /\ UNCHANGED <<auditLock, auditRecord, auditWritten, auditCalls, auditFrame>>

NextAudit ==
    \/ LogOperation \/ LogSecurityEvent \/ LogWrite \/ LogExcept
    \/ CleanupRead \/ CleanupWrite

SpecAudit == InitAudit /\ [][NextAudit]_vars

\* ------------------------------------- audit log readers as pure functions
\* SpecRead draws an audit.log and a call of one of its readers, and
\* applies the reader.
InitRead ==
    /\ platform \in {"Windows", "Darwin"}
    /\ isAdmin = TRUE
    /\ sudoOk = (platform = "Darwin")
    /\ ifconfigExec = (platform = "Darwin")
    /\ matched = [a \in AdapterIds |-> TRUE]
    /\ networkAddress = [a \in AdapterIds |-> None]
    /\ machineGuid = GuidOriginal
    /\ fpBackups = 0
    /\ regBackups = 0
    /\ auditLog = << >>
    /\ lastCall = NoCall
    /\ request = NoChanges
    /\ verdict = NoVerdict
    /\ evaluated = 0
    /\ riskTrace = << >>
    /\ result = ValidationResultInit
    /\ textCall = NoTextCall
    /\ textResult = NoTextResult
    /\ auditEnabled = TRUE
    /\ AuditIdle
    /\ readCall \in ReadCalls
    /\ readResult = NoReadResult
    /\ StoreIdle
    /\ ConfirmIdle
    /\ WorkerIdle

\* get_operation_history(limit)
GetOperationHistory ==
    /\ readCall.fn = "get_operation_history"
    /\ readResult = NoReadResult
    /\ readResult' = ReadReturned(get_operation_history(readCall.lines, readCall.limit))
    /\ UNCHANGED <<envVars, systemVars, storeVars, lastCall, validationVars,
                   textVars, auditVars, readCall, backupVars, confirmVars, workerVars>>

\* search_logs(query, start_time, end_time)
SearchLogs ==
    /\ readCall.fn = "search_logs"
    /\ readResult = NoReadResult
    /\ readResult' = ReadReturned(search_logs(readCall.lines))
    /\ UNCHANGED <<envVars, systemVars, storeVars, lastCall, validationVars,
                   textVars, auditVars, readCall, backupVars, confirmVars, workerVars>>

NextRead == GetOperationHistory \/ SearchLogs

SpecRead == InitRead /\ [][NextRead]_vars

\* ------------------------------------------------- backup store calls
\* SpecBackup: the registry backup store and the backup history of the UI,
\* called one after the other while the clock moves on.
InitBackup ==
    /\ platform = "Windows"
    /\ isAdmin = TRUE
    /\ sudoOk = FALSE
    /\ ifconfigExec = FALSE
    /\ matched = [a \in AdapterIds |-> TRUE]
    /\ networkAddress = [a \in AdapterIds |-> None]
    /\ machineGuid = GuidOriginal
    /\ fpBackups = 0
    /\ regBackups = 0
    /\ auditLog = << >>
    /\ lastCall = NoCall
    /\ request = NoChanges
    /\ verdict = NoVerdict
    /\ evaluated = 0
    /\ riskTrace = << >>
    /\ result = ValidationResultInit
    /\ textCall = NoTextCall
    /\ textResult = NoTextResult
    /\ auditEnabled = TRUE
    /\ AuditIdle
    /\ ReadIdle
    /\ StoreIdle
    /\ ConfirmIdle
    /\ WorkerIdle

backupFrame ==
    <<envVars, systemVars, storeVars, lastCall, validationVars, textVars,
      auditVars, readVars, confirmVars, workerVars>>

\* a second passes
Tick ==
    /\ clock < MaxClock
    /\ clock' = clock + 1
    /\ UNCHANGED <<regFiles, bakFiles, regCreated, storeCall, backupFrame>>

\* RegistryManager.backup_registry_key: the id carries the time and eight
\* hex digits of a fresh uuid4; reading the key or writing the file may fail
BackupRegistryKey ==
    \E ok \in BOOLEAN :
        /\ regCreated < MaxStoreBackups
        /\ IF ok
           THEN /\ regCreated' = regCreated + 1
                /\ regFiles' = regFiles \cup {regCreated + 1}
                /\ storeCall' = StoreCall("backup_registry_key", regCreated + 1,
                                          list_backups(regFiles),
                                          list_backups(regFiles'),
                                          "backup_id", "none", FALSE)
           ELSE /\ storeCall' = StoreCall("backup_registry_key", 0,
                                          list_backups(regFiles),
                                          list_backups(regFiles),
                                          "n/a", "BackupError", FALSE)
                /\ UNCHANGED <<regFiles, regCreated>>
        /\ UNCHANGED <<bakFiles, clock, backupFrame>>

\* RegistryManager.delete_backup(backup_id)
DeleteBackup ==
    \E backup_id \in BackupIds, unlinkOk \in BOOLEAN :
        LET d == delete_backup(regFiles, backup_id, unlinkOk) IN
        /\ regFiles' = d.files
        /\ storeCall' = StoreCall("delete_backup", backup_id,
                                  list_backups(regFiles), list_backups(d.files),
                                  d.returned, d.raised, d.files # regFiles)
        /\ UNCHANGED <<bakFiles, clock, regCreated, backupFrame>>

\* BackupWidget.create_backup, BackupWorker.run and on_backup_completed:
\* the file is named after the second of the start and written to the
\* directory shown in backup_path_edit, which browse_backup_path may have
\* set to another directory than the configured one (chosen)
CreateBackup ==
    \E chosen \in BOOLEAN, writeOk \in BOOLEAN :
        /\ bakFiles' = IF writeOk /\ ~chosen THEN bakFiles \cup {clock}
                       ELSE bakFiles
        /\ storeCall' = StoreCall("create_backup", clock,
                                  load_backup_history(bakFiles),
                                  load_backup_history(bakFiles'),
                                  IF writeOk THEN "True" ELSE "False",
                                  "none", FALSE)
        /\ UNCHANGED <<regFiles, clock, regCreated, backupFrame>>

\* BackupHistoryWidget.delete_backup on a selected row, confirmed or not
HistoryDeleteBackup ==
    \E file \in bakFiles, confirm \in BOOLEAN :
        /\ bakFiles' = IF confirm THEN bakFiles \ {file} ELSE bakFiles
        /\ storeCall' = StoreCall("history_delete_backup", file,
                                  load_backup_history(bakFiles),
                                  load_backup_history(bakFiles'),
                                  "n/a", "none", confirm)
        /\ UNCHANGED <<regFiles, clock, regCreated, backupFrame>>

NextBackup ==
    \/ Tick \/ BackupRegistryKey \/ DeleteBackup \/ CreateBackup
    \/ HistoryDeleteBackup

SpecBackup == InitBackup /\ [][NextBackup]_vars

\* --------------------------------------- confirmation before a MAC worker
\* SpecConfirm: the user works the MAC dialog's modify button and the
\* three-level confirmation dialog.
InitConfirm ==
    /\ platform = "Windows"
    /\ isAdmin = TRUE
    /\ sudoOk = FALSE
    /\ ifconfigExec = FALSE
    /\ matched = [a \in AdapterIds |-> TRUE]
    /\ networkAddress = [a \in AdapterIds |-> None]
    /\ machineGuid = GuidOriginal
    /\ fpBackups = 0
    /\ regBackups = 0
    /\ auditLog = << >>
    /\ lastCall = NoCall
    /\ request = NoChanges
    /\ verdict = NoVerdict
    /\ evaluated = 0
    /\ riskTrace = << >>
    /\ result = ValidationResultInit
    /\ textCall = NoTextCall
    /\ textResult = NoTextResult
    /\ auditEnabled = TRUE
    /\ AuditIdle
    /\ ReadIdle
    /\ StoreIdle
    /\ threeLevelConfirmation \in BOOLEAN
    /\ confirmDialog = NoConfirmDialog
    /\ macWorkerStart = NoWorkerStart
    /\ WorkerIdle

confirmFrame ==
    <<envVars, systemVars, storeVars, lastCall, validationVars, textVars,
      auditVars, readVars, backupVars, threeLevelConfirmation, workerVars>>

\* MacAddressDialog.modify_mac_address: nothing without a new MAC; the
\* three-level dialog when the setting is on, else one question
ModifyMacAddress ==
    \E new_mac \in {<< >>, MacColon}, reply \in {"Yes", "No"}, destroys \in BOOLEAN :
        /\ ~confirmDialog.open
        /\ IF new_mac = << >> THEN UNCHANGED <<confirmDialog, macWorkerStart>>
           ELSE IF threeLevelConfirmation
                THEN /\ confirmDialog' = show_step(NewConfirmDialog(destroys), 0)
                     /\ macWorkerStart' = NoWorkerStart
           ELSE /\ confirmDialog' = NoConfirmDialog
                /\ macWorkerStart' =
                      IF reply = "Yes" THEN WorkerStart("question", NoConfirmDialog)
                      ELSE NoWorkerStart
        /\ UNCHANGED confirmFrame

\* the user ticks the last requirement box of the LEVEL_2 widget on screen,
\* or clears one
ToggleRequirement ==
    /\ confirmDialog.open
    /\ confirmDialog.shown = RiskStep
    /\ confirmDialog' =
          on_requirement_changed(confirmDialog, ~confirmDialog.requirements_met)
    /\ UNCHANGED <<macWorkerStart, confirmFrame>>

\* the user ticks or clears the confirmation box of the step on screen
ToggleConfirmation ==
    /\ confirmDialog.open
    /\ confirmDialog.shown = RiskStep => confirmDialog.risk_enabled
    /\ confirmDialog' =
          on_confirmation_changed(confirmDialog,
                                  ~confirmDialog.confirmed[confirmDialog.shown])
    /\ UNCHANGED <<macWorkerStart, confirmFrame>>

\* the user clicks the enabled next / confirm button
NextStep ==
    /\ confirmDialog.open
    /\ confirmDialog.next_enabled
    /\ confirmDialog' = next_step(confirmDialog)
    /\ macWorkerStart' =
          IF confirmDialog'.started
          THEN WorkerStart("three_level", confirmDialog)
          ELSE macWorkerStart
    /\ UNCHANGED confirmFrame

\* the user clicks the enabled previous button
PreviousStep ==
    /\ confirmDialog.open
    /\ confirmDialog.prev_enabled
    /\ confirmDialog' = previous_step(confirmDialog)
    /\ UNCHANGED <<macWorkerStart, confirmFrame>>

\* the user clicks cancel, presses Esc or closes the dialog
Reject ==
    /\ confirmDialog.open
    /\ confirmDialog' = reject(confirmDialog)
    /\ macWorkerStart' =
          IF confirmDialog'.started
          THEN WorkerStart("three_level", confirmDialog)
          ELSE macWorkerStart
    /\ UNCHANGED confirmFrame

NextConfirm ==
    \/ ModifyMacAddress
    \/ ToggleRequirement
    \/ ToggleConfirmation
    \/ NextStep
    \/ PreviousStep
    \/ Reject

SpecConfirm == InitConfirm /\ [][NextConfirm]_vars

TypeOK ==
    /\ platform \in {"Windows", "Darwin"}
    /\ fpBackups \in 0..MaxBackups
    /\ regBackups \in 0..MaxBackups
    /\ lastCall.op \in {"none", "apply", "modify_mac", "restore_mac",
                        "modify_guid", "ui_modify_guid", "ui_modify_volume",
                        "ui_restore"}

\* ------------------------------------------------------------- properties
\* positions of lastCall.events
NativeWriteIdx ==
    {i \in 1..Len(lastCall.events) : lastCall.events[i].kind \in NativeWriteKinds}

NativeIdx ==
    {i \in 1..Len(lastCall.events) : lastCall.events[i].kind \in NativeKinds}

DirectOps == {"modify_mac", "restore_mac", "modify_guid"}

\* C1: an apply_fingerprint_changes that passes validation creates a
\* fingerprint backup before its first native modify call; when the backup
\* cannot be created the apply raises and issues no native modify call.
C1_ApplyBackupBeforeNative ==
    (lastCall.op = "apply" /\ lastCall.valid) =>
        /\ Len(lastCall.events) >= 2
        /\ lastCall.events[2].kind \in FpBackupKinds \cup {"fp_backup_failed"}
        /\ \A i \in NativeIdx : i > 2
        /\ lastCall.events[2].kind = "fp_backup_failed" =>
              /\ lastCall.raised = "OperationError"
              /\ NativeIdx = {}

C1_Witness ==
    /\ lastCall.op = "apply"
    /\ lastCall.valid
    /\ lastCall.events[2].kind = "fp_backup"
    /\ NativeWriteIdx # {}
    /\ lastCall.raised = "none"

\* C2: every native mutation issued by a direct modify_mac_address,
\* restore_original_mac or modify_machine_guid call is preceded, in that
\* call, by a backup of the state it overwrites.
C2_DirectCallBacksUpFirst ==
    lastCall.op \in DirectOps =>
        \A i \in NativeWriteIdx :
            \E j \in 1..(i - 1) :
                /\ lastCall.events[j].kind \in BackupKinds
                /\ lastCall.events[j].target \in {lastCall.events[i].target, NoTarget}

\* the MAC mutations of the last call that succeeded
SuccessfulMacMutations ==
    IF lastCall.op = "modify_mac"
    THEN (IF lastCall.returned = "True" THEN {lastCall.adapter_id} ELSE {})
    ELSE IF lastCall.op = "apply"
    THEN {lastCall.results[i].target :
             i \in {k \in 1..Len(lastCall.results) :
                       /\ lastCall.results[k].key = "mac"
                       /\ lastCall.results[k].success}}
    ELSE {}

\* C3: every successful MAC mutation produces exactly one audit record.
C3_OneAuditRecordPerMacMutation ==
    Len(lastCall.audit) = Cardinality(SuccessfulMacMutations)

\* the adapter is listed with can_modify false
CannotModify(a) ==
    LET adapter == IF platform = "Windows" THEN WinGetAdapterById(a)
                   ELSE MacGetAdapterById(a)
    IN adapter.found /\ ~adapter.can_modify

RequestedMacChange(a) ==
    \/ lastCall.op = "modify_mac" /\ lastCall.adapter_id = a
    \/ lastCall.op = "apply" /\ a \in lastCall.requested

\* C4: a MAC change requested for an adapter whose can_modify is false,
\* directly or as an item of an apply, issues no native write for it.
C4_NoNativeWriteWhenCannotModify ==
    \A a \in AdapterIds :
        (CannotModify(a) /\ RequestedMacChange(a)) =>
            \A i \in NativeWriteIdx : lastCall.events[i].target # a

C4_Witness ==
    /\ isAdmin
    /\ lastCall.op = "modify_mac"
    /\ CannotModify(lastCall.adapter_id)
    /\ lastCall.events = <<Event("perm_check", lastCall.adapter_id)>>
    /\ lastCall.raised = "OperationError"

\* C5: apply_fingerprint_changes validates the change-set before anything
\* else, and when the verdict is invalid it raises without a native write.
C5_ApplyValidatesFirst ==
    lastCall.op = "apply" =>
        /\ lastCall.events # << >>
        /\ lastCall.events[1].kind = "validate"
        /\ ~lastCall.valid =>
              /\ lastCall.raised = "OperationError"
              /\ NativeWriteIdx = {}

C5_Witness ==
    /\ lastCall.op = "apply"
    /\ ~lastCall.valid
    /\ lastCall.requested # {}
    /\ lastCall.raised = "OperationError"
    /\ lastCall.events = <<Event("validate", NoTarget)>>

PermissionMissing ==
    IF platform = "Windows" THEN ~CheckAdminPrivileges
    ELSE /\ lastCall.op \in {"modify_mac", "restore_mac"}
         /\ ~MacValidatePermissions("modify_mac_address")

\* C7: a mutating engine call made without the required permission fails
\* with PermissionError and issues no native call.
C7_PermissionErrorWhenMissing ==
    (lastCall.op \in DirectOps /\ PermissionMissing) =>
        /\ lastCall.raised = "PermissionError"
        /\ NativeIdx = {}

\* C8: the verdict on a change-set with volume-serial changes is invalid with
\* risk level critical, on either platform and whatever else the set holds.
C8_VolumeChangesRejected ==
    (evaluated >= 1 /\ request.volume_serial_changes # NoKey) =>
        /\ ~verdict.valid
        /\ verdict.risk_level = "critical"

C8_Witness ==
    /\ evaluated >= 1
    /\ platform = "Darwin"
    /\ request.volume_serial_changes # NoKey
    /\ request.mac_changes.items # << >>
    /\ request.hardware_uuid = NoKey
    /\ verdict.risk_level = "critical"

\* C9: on macOS the verdict on a change-set with a machine-identity change is
\* invalid, whether the change is under machine_guid or under hardware_uuid.
C9_MacIdentityChangeRejected ==
    (/\ evaluated >= 1
     /\ platform = "Darwin"
     /\ request.machine_guid # NoKey \/ request.hardware_uuid # NoKey) =>
        ~verdict.valid

\* the request's only change is a machine_guid that parses as a UUID
OnlyValidMachineGuid ==
    /\ request.mac_changes.items = << >>
    /\ request.hardware_uuid = NoKey
    /\ request.volume_serial_changes = NoKey
    /\ request.machine_guid \notin {NoKey, None}
    /\ UuidParses(request.machine_guid)

\* C10: on Windows the verdict on a change-set whose only change is a
\* syntactically valid machine GUID is valid with risk level at least high.
C10_WinValidGuidHighRisk ==
    (evaluated >= 1 /\ platform = "Windows" /\ OnlyValidMachineGuid) =>
        /\ verdict.valid
        /\ RiskRank(verdict.risk_level) >= RiskRank("high")

C10_Witness ==
    /\ evaluated >= 1
    /\ platform = "Windows"
    /\ OnlyValidMachineGuid
    /\ verdict.risk_level = "high"

\* C11: during a validation the risk level never decreases from one per-kind
\* check to the next, and the verdict carries the last of them.
C11_RiskNeverDecreases ==
    evaluated >= 1 =>
        /\ \A i \in 1..(Len(riskTrace) - 1) :
              RiskRank(riskTrace[i + 1]) >= RiskRank(riskTrace[i])
        /\ riskTrace[Len(riskTrace)] = verdict.risk_level

C11_Witness ==
    /\ evaluated >= 1
    /\ platform = "Windows"
    /\ riskTrace = <<"low", "medium", "high", "critical">>

\* C12: the verdict on a change-set with at least one MAC change has a risk
\* level of at least medium, whether or not the item checks pass.
C12_MacChangeAtLeastMedium ==
    (evaluated >= 1 /\ request.mac_changes.items # << >>) =>
        RiskRank(verdict.risk_level) >= RiskRank("medium")

\* C13: a validation result with a non-empty error list is not valid: a
\* ValidationResult built through add_error, and the verdict of a
\* validation on either platform, the one from its except branch included.
C13_ErrorsForceInvalid ==
    /\ result.errors # << >> => ~result.is_valid
    /\ (evaluated >= 1 /\ verdict.errors # << >>) => ~verdict.valid

C13_Witness ==
    /\ result.errors # << >>
    /\ result.warnings # << >>
    /\ evaluated >= 1
    /\ verdict = RaisedVerdict

\* value of a hex digit, and of the first octet of a MAC text
HexValue(c) ==
    CHOOSE n \in 0..15 : HexDigitsUpper[n + 1] = c \/ HexDigitsLower[n + 1] = c

FirstOctet(mac) == 16 * HexValue(mac[1]) + HexValue(mac[2])

\* C14: every MAC that generate_random_mac returns, with or without a vendor
\* prefix, has bit 0 of its first octet clear and bit 1 set.
C14_RandomMacLocalUnicast ==
    (textCall.fn = "generate_random_mac" /\ textResult.raised = "none") =>
        /\ FirstOctet(textResult.value) % 2 = 0
        /\ (FirstOctet(textResult.value) \div 2) % 2 = 1

\* the ':'-delimited upper-case form of a six-octet MAC text
Canonical(mac) == [i \in 1..17 |-> IF i % 3 = 0 THEN ":" ELSE UpperChar(mac[i])]

\* C15: on a valid six-octet MAC text in ':' or '-' form, each normalize
\* function returns the canonical form, and returns that form unchanged when
\* applied to it.
C15_NormalizeCanonicalIdempotent ==
    (/\ textCall.fn \in {"_normalize_mac_address", "normalize_mac"}
     /\ textResult # NoTextResult
     /\ Len(textCall.arg) = 17
     /\ ValidateMacAddress(textCall.arg)) =>
        /\ textResult.raised = "none"
        /\ textResult.value = Canonical(textCall.arg)
        /\ textResult.again = Returned(textResult.value)

\* the capability-table feature a UI operation needs
FeatureOf(op) ==
    IF op = "ui_modify_guid" THEN "machine_guid_modification"
    ELSE "volume_serial_modification"

\* C16: a UI operation whose feature the platform capability table marks
\* unsupported is refused before the engine operation is invoked.
C16_UnsupportedNeverInvoked ==
    (/\ lastCall.op \in {"ui_modify_guid", "ui_modify_volume"}
     /\ ~PlatformCapabilities(platform, FeatureOf(lastCall.op))) =>
        \A i \in 1..Len(lastCall.events) : lastCall.events[i].kind # "engine_call"

\* the call cleared the MAC override of adapter a
OverrideCleared(a) ==
    \E i \in 1..Len(lastCall.events) :
        /\ lastCall.events[i].kind \in {"DeleteValue", "ifconfig_up"}
        /\ lastCall.events[i].target = a

\* C17: after a restore that reports success every recorded item has been
\* replayed: the override of each recorded adapter has been cleared and the
\* machine GUID is the recorded one.
C17_RestoreReplaysRecordedItems ==
    (lastCall.op = "ui_restore" /\ lastCall.returned = "True") =>
        /\ \A a \in lastCall.backup_data.adapters : OverrideCleared(a)
        /\ lastCall.backup_data.has_guid => machineGuid = GuidOriginal

\* the lines of audit.log as a set
AuditLines == {auditLog[i] : i \in 1..Len(auditLog)}

\* C18: no record whose append completed is missing from the log because
\* another thread wrote or rewrote the log at the same time: a record that
\* retention does not remove is in the log once it has been written.
C18_NoRecordLostToConcurrentWriter ==
    \A r \in auditWritten : ~r.old => r \in AuditLines

\* C19: a record that has been appended stays in the log, unless the log
\* holds the record of a retention-cleanup pass.
C19_AppendOnlyExceptLoggedCleanup ==
    \A r \in auditWritten :
        \/ r \in AuditLines
        \/ \E c \in AuditLines : c.kind = "cleanup"

\* C20: no call of log_operation or log_security_event ends with an
\* exception reaching its caller.
C20_AuditFailureNeverPropagates ==
    \A t \in AuditThreads : callerSaw[t] \in {"none", "returned"}

\* the ids of the operation records among lines, oldest first
OperationIds(lines) ==
    LET ops == SelectSeq(lines, LAMBDA l : l.kind = "operation")
    IN [i \in 1..Len(ops) |-> ops[i].id]

Reverse(seq) == [i \in 1..Len(seq) |-> seq[Len(seq) + 1 - i]]

\* C21: a reader passes over lines that cannot be parsed into a record and
\* returns the well-formed matching records of the rest of the log: a
\* search returns every operation record its query and time range match,
\* and a history whose limit covers the file returns every operation
\* record, newest first.
C21_ReadersSkipMalformedLines ==
    /\ (readCall.fn = "search_logs" /\ readResult.done) =>
          readResult.records = OperationIds(SelectSeq(readCall.lines, LAMBDA l : l.hit))
    /\ (/\ readCall.fn = "get_operation_history"
        /\ readResult.done
        /\ readCall.limit >= Len(readCall.lines)
        /\ readCall.limit > 0) =>
          readResult.records = Reverse(OperationIds(readCall.lines))

\* the lines on which a reader gives up the whole scan
AbortingLines(lines) ==
    {i \in 1..Len(lines) : lines[i].kind \in {"not_object", "bad_timestamp"}}

Min(a, b) == IF a <= b THEN a ELSE b

\* C30: get_operation_history(limit) returns the min(limit, N) most recent
\* operation records, newest first, N being the number of operation
\* records in the log, whatever lines lie between them (stated for logs
\* none of whose lines makes the reader give up).
C30_HistoryReturnsMostRecent ==
    (/\ readCall.fn = "get_operation_history"
     /\ readResult.done
     /\ AbortingLines(readCall.lines) = {}) =>
        LET newest == Reverse(OperationIds(readCall.lines))
        IN readResult.records = SubSeq(newest, 1, Min(readCall.limit, Len(newest)))

\* C28: when assembling the fingerprint snapshot fails, backup creation
\* fails too: no call writes a backup holding an empty snapshot, so no
\* native write follows such a backup.
C28_SnapshotFailureFailsBackup ==
    \A i \in 1..Len(lastCall.events) :
        lastCall.events[i].kind = "fp_backup_empty" =>
            /\ lastCall.raised # "none"
            /\ \A j \in NativeWriteIdx : j < i

\* C22: after a backup creation that succeeded the listing holds exactly
\* one entry more than the listing taken before it.
C22_CreationAddsOneListedBackup ==
    (/\ storeCall.op \in {"backup_registry_key", "create_backup"}
     /\ storeCall.raised = "none"
     /\ storeCall.returned # "False") =>
        Cardinality(storeCall.after) = Cardinality(storeCall.before) + 1

\* C23: delete_backup of an id that has no backup returns False, raises
\* nothing and leaves the listed backups as they were.
C23_DeleteMissingBackupFails ==
    (storeCall.op = "delete_backup" /\ storeCall.backup_id \notin storeCall.before) =>
        /\ storeCall.returned = "False"
        /\ storeCall.raised = "none"
        /\ storeCall.after = storeCall.before
        /\ regFiles = storeCall.before

C23_Witness ==
    /\ storeCall.op = "delete_backup"
    /\ storeCall.backup_id \notin storeCall.before
    /\ storeCall.before # {}
    /\ storeCall.returned = "False"

\* C24: a call that deleted a backup leaves a security event in the audit
\* log.
C24_DeletionLoggedAsSecurityEvent ==
    storeCall.deleted =>
        \E i \in 1..Len(auditLog) : auditLog[i].kind = "security_event"

\* C29: with three-level confirmation on, a MAC worker is started only
\* from the final step with all three levels confirmed at that moment; the
\* dialog never stands at a level whose predecessors are unconfirmed; a
\* rejected or closed dialog has started no worker.
C29_WorkerOnlyAfterThreeConfirmations ==
    threeLevelConfirmation =>
        /\ macWorkerStart.via \in {"none", "three_level"}
        /\ macWorkerStart.via = "three_level" =>
              /\ macWorkerStart.current_step = FinalStep
              /\ \A s \in Steps : macWorkerStart.confirmed[s]
              /\ confirmDialog.outcome = "accepted"
        /\ \A s \in Steps : s < confirmDialog.current_step => confirmDialog.confirmed[s]
        /\ confirmDialog.outcome = "rejected" =>
              ~confirmDialog.started /\ macWorkerStart.via = "none"
        /\ confirmDialog.started => confirmDialog.outcome = "accepted"

C29_Witness ==
    /\ threeLevelConfirmation
    /\ macWorkerStart.via = "three_level"
    /\ confirmDialog.started
    /\ confirmDialog.outcome = "accepted"

\* ------------------------------------------------------ background workers
\* SpecWorker: the user opens the modification dialogs, starts, cancels and
\* waits for their workers, and runs backups and refreshes meanwhile; the
\* worker threads run statement by statement beside the GUI thread.
InitWorker ==
    /\ platform \in {"Windows", "Darwin"}
    /\ isAdmin = TRUE
    /\ sudoOk = (platform = "Darwin")
    /\ ifconfigExec = (platform = "Darwin")
    /\ matched = [a \in AdapterIds |-> TRUE]
    /\ networkAddress = [a \in AdapterIds |-> None]
    /\ machineGuid = GuidOriginal
    /\ fpBackups = 0
    /\ regBackups = 0
    /\ auditLog = << >>
    /\ lastCall = NoCall
    /\ request = NoChanges
    /\ verdict = NoVerdict
    /\ evaluated = 0
    /\ riskTrace = << >>
    /\ result = ValidationResultInit
    /\ textCall = NoTextCall
    /\ textResult = NoTextResult
    /\ auditEnabled = TRUE
    /\ AuditIdle
    /\ ReadIdle
    /\ StoreIdle
    /\ ConfirmIdle
    /\ WorkerIdle

workerFrame ==
    <<envVars, lastCall, validationVars, textVars, auditVars, readVars,
      backupVars, confirmVars>>

\* the signals a statement queued for the GUI thread; a progress value
\* below the maximum only moves the bar, and is left out
Queued(id, before, after) ==
    LET new == SubSeq(after.emitted, Len(before.emitted) + 1, Len(after.emitted))
        kept == SelectSeq(new, LAMBDA e : e.sig = "completed" \/ e.percent = 100)
    IN [i \in 1..Len(kept) |-> [run |-> id, event |-> kept[i]]]

\* fingerprint_widget.modify_adapter_mac / modify_guid: dialog.exec_()
OpenDialog ==
    \E kind \in MutationKinds, adapter \in AdapterIds :
        /\ MainUsable(gui)
        /\ gui' = [gui EXCEPT !.dialog = kind,
                              !.target = IF kind = "mac" THEN adapter ELSE GuidTarget,
                              !.worker = 0, !.progress = FALSE]
        /\ UNCHANGED <<runs, signals, systemVars, storeVars, workerFrame>>

\* the user closes the modification dialog
CloseDialog ==
    /\ DialogUsable(gui)
    /\ gui' = [gui EXCEPT !.dialog = "none", !.target = GhostId, !.worker = 0]
    /\ UNCHANGED <<runs, signals, systemVars, storeVars, workerFrame>>

\* modify_mac_address / modify_machine_guid down to execute_mac_modification
\* / execute_guid_modification: the confirmation dialog's exec_() runs an
\* event loop, which hands over the signals queued so far, before the
\* progress dialog goes up and the worker is kept and started
ExecuteModification ==
    \E value \in (IF gui.dialog = "mac" THEN {MacColon, MacBad}
                  ELSE {GuidValid, GuidBad}) :
        /\ DialogUsable(gui)
        /\ signals = << >>
        /\ Len(runs) < MaxWorkerRuns
        /\ runs' = Append(Collected(runs), NewRun(gui.dialog, gui.target, value))
        /\ gui' = [gui EXCEPT !.worker = Len(runs) + 1, !.progress = TRUE]
        /\ UNCHANGED <<signals, systemVars, storeVars, workerFrame>>

\* NetworkAdapterWidget.restore_mac_address, in the GUI thread: reading
\* adapter.adapter_id raises AttributeError, caught by the handler
RestoreMacAddress ==
    \E adapter \in AdapterIds :
        /\ MainUsable(gui)
        /\ Len(runs) < MaxWorkerRuns
        /\ runs' = Append(Collected(runs), [NewRun("restore", adapter, << >>)
                                    EXCEPT !.status = "finished"])
        /\ UNCHANGED <<gui, signals, systemVars, storeVars, workerFrame>>

\* BackupOperationWidget.create_backup
StartBackup ==
    /\ MainUsable(gui)
    /\ gui.backup_btn
    /\ Len(runs) < MaxWorkerRuns
    /\ runs' = Append(Collected(runs), NewRun("backup", NoTarget, << >>))
    /\ gui' = [gui EXCEPT !.backup_btn = FALSE]
    /\ UNCHANGED <<signals, systemVars, storeVars, workerFrame>>

\* FingerprintWidget.refresh_all_data
RefreshAllData ==
    /\ MainUsable(gui)
    /\ Len(runs) < MaxWorkerRuns
    /\ runs' = Append(Collected(runs), NewRun("fingerprint", NoTarget, << >>))
    /\ gui' = [gui EXCEPT !.main_progress = TRUE, !.fp_worker = Len(runs) + 1]
    /\ UNCHANGED <<signals, systemVars, storeVars, workerFrame>>

\* what the verifying statement of a mutation worker finds
Verified(r) ==
    IF r.kind = "guid" THEN Upper(machineGuid) = Upper(r.value)
    ELSE networkAddress[r.target] # None

\* a worker thread runs its next statement, any but the engine call
WorkerStep ==
    \E id \in 1..Len(runs), ok \in BOOLEAN :
        LET r == runs[id]
            s == Program(r.kind)[r.pc]
            after == RunStatement(r, ok)
        IN /\ r.status = "running"
           /\ s.op # "native"
           /\ s.op = "verify" => ok = Verified(r)
           /\ s.op \notin {"verify", "collect", "save"} => ok
           /\ runs' = [runs EXCEPT ![id] = after]
           /\ signals' = signals \o Queued(id, r, after)
           /\ UNCHANGED <<gui, systemVars, storeVars, workerFrame>>

\* a mutation worker calls the engine: the MAC worker reads
\* self.adapter.adapter_id, which NetworkAdapter does not have, and ends in
\* its except branch; the GUID worker calls modify_machine_guid
WorkerNative ==
    \E id \in 1..Len(runs), o \in DirectOutcomes :
        LET r == runs[id]
            m == IF r.kind = "guid" THEN GuidNativeCall(r.value, o) ELSE StartCall
            r1 == [r EXCEPT !.wrote = Wrote(m),
                            !.changed = m.guid # machineGuid \/ m.na # networkAddress]
            after == IF r.kind = "guid" /\ m.raised = "none" /\ m.returned = "True"
                     THEN [r1 EXCEPT !.pc = @ + 1]
                     ELSE Finish(r1, FALSE)
        IN /\ r.status = "running"
           /\ Program(r.kind)[r.pc].op = "native"
           /\ r.kind = "mac" => o = FixedOutcome
           /\ Commit(m)
           /\ runs' = [runs EXCEPT ![id] = after]
           /\ signals' = signals \o Queued(id, r, after)
           /\ UNCHANGED <<gui, workerFrame>>

\* the user presses the progress dialog's cancel button while the worker is
\* outside the engine call: the dialog hides, cancel_modification runs
CancelModification ==
    /\ gui.dialog # "none"
    /\ gui.progress
    /\ gui' = [gui EXCEPT !.progress = FALSE]
    /\ IF gui.worker = 0 THEN UNCHANGED <<runs, signals>>
       ELSE LET r == runs[gui.worker]
                after == cancel_modification(r)
            IN /\ runs' = [runs EXCEPT ![gui.worker] = after]
               /\ signals' = signals \o Queued(gui.worker, r, after)
    /\ UNCHANGED <<systemVars, storeVars, workerFrame>>

\* the same while the GUID worker is inside modify_machine_guid, k events
\* into it
CancelDuringNative ==
    \E o \in DirectOutcomes :
        /\ gui.dialog = "guid"
        /\ gui.progress
        /\ gui.worker # 0
        /\ LET r == runs[gui.worker]
               whole == GuidNativeCall(r.value, o)
           IN /\ r.status = "running"
              /\ Program(r.kind)[r.pc].op = "native"
              /\ \E k \in 1..Len(whole.events) :
                    LET m == CutShort(whole, k)
                        r1 == [r EXCEPT !.wrote = Wrote(m),
                                        !.changed = m.guid # machineGuid]
                    IN /\ Commit(m)
                       /\ runs' = [runs EXCEPT ![gui.worker] = cancel_modification(r1)]
        /\ gui' = [gui EXCEPT !.progress = FALSE]
        /\ UNCHANGED <<signals, workerFrame>>

\* the user cancels the refresh: cancel_operation, then on_worker_finished
CancelOperation ==
    /\ gui.dialog = "none"
    /\ gui.main_progress
    /\ gui' = [gui EXCEPT !.main_progress = FALSE, !.fp_worker = 0]
    /\ IF gui.fp_worker = 0 THEN UNCHANGED <<runs, signals>>
       ELSE LET r == runs[gui.fp_worker]
                after == cancel_modification(r)
            IN /\ runs' = [runs EXCEPT ![gui.fp_worker] = after]
               /\ signals' = signals \o Queued(gui.fp_worker, r, after)
    /\ UNCHANGED <<systemVars, storeVars, workerFrame>>

\* the GUI thread handles the oldest queued worker signal: setValue (a
\* progress dialog hides itself at its maximum), on_modification_completed,
\* on_backup_completed, on_worker_finished
DeliverSignal ==
    /\ signals # << >>
    /\ signals' = Tail(signals)
    /\ LET id == Head(signals).run
           e == Head(signals).event
           kind == runs[id].kind
       IN gui' =
            CASE e.sig = "progress" /\ e.percent = 100 /\ id = gui.worker ->
                    [gui EXCEPT !.progress = FALSE]
              [] e.sig = "progress" /\ e.percent = 100 /\ id = gui.fp_worker ->
                    [gui EXCEPT !.main_progress = FALSE]
              [] e.sig = "completed" /\ kind \in MutationKinds /\ gui.dialog # "none" ->
                    [gui EXCEPT !.progress = IF id = gui.worker THEN FALSE ELSE @,
                                !.worker = 0,
                                !.dialog = IF e.success THEN "none" ELSE @,
                                !.target = IF e.success THEN GhostId ELSE @]
              [] e.sig = "completed" /\ kind = "backup" ->
                    [gui EXCEPT !.backup_btn = TRUE]
              [] e.sig = "completed" /\ kind = "fingerprint" /\ id = gui.fp_worker ->
                    [gui EXCEPT !.main_progress = FALSE, !.fp_worker = 0]
              [] OTHER -> gui
    /\ UNCHANGED <<runs, systemVars, storeVars, workerFrame>>

NextWorker ==
    \/ OpenDialog
    \/ CloseDialog
    \/ ExecuteModification
    \/ RestoreMacAddress
    \/ StartBackup
    \/ RefreshAllData
    \/ WorkerStep
    \/ WorkerNative
    \/ CancelModification
    \/ CancelDuringNative
    \/ CancelOperation
    \/ DeliverSignal

SpecWorker == InitWorker /\ [][NextWorker]_vars

\* C25: at any time at most one mutation worker is running per target
\* resource (an adapter id, or the machine identity); a second mutation
\* attempt on a resource never starts while a worker on it is in flight.
C25_OneMutationWorkerPerResource ==
    /\ \A i, j \in 1..Len(runs) :
          (/\ i # j
           /\ runs[i].kind \in MutationKinds /\ runs[i].status = "running"
           /\ runs[j].kind \in MutationKinds /\ runs[j].status = "running")
          => runs[i].target # runs[j].target
    /\ \A i \in 1..Len(runs) : ~runs[i].overlapped

C25_Witness ==
    \E i, j \in 1..Len(runs) :
        /\ i < j
        /\ runs[i].kind \in MutationKinds
        /\ runs[i].status = "deleted"
        /\ runs[j].kind \in MutationKinds
        /\ runs[j].status = "running"
        /\ runs[j].target = runs[i].target

\* C26: a mutation worker cancelled before it issued the native write never
\* issues it afterwards, runs no further, and leaves the MAC overrides and
\* the machine GUID as they were.
C26_CancelBeforeWriteIsClean ==
    \A i \in 1..Len(runs) :
        (runs[i].kind \in MutationKinds /\ runs[i].cancelled /\ ~runs[i].wroteAtCancel)
        => /\ runs[i].status = "terminated"
           /\ ~runs[i].wrote
           /\ ~runs[i].changed

C26_Witness ==
    \E i \in 1..Len(runs) :
        /\ platform = "Windows"
        /\ runs[i].kind = "guid"
        /\ runs[i].value = GuidValid
        /\ runs[i].cancelled
        /\ ~runs[i].wroteAtCancel
        /\ Program("guid")[runs[i].pc].op = "native"
        /\ machineGuid = GuidOriginal

\* C27: within one run of a worker the progress events are emitted with
\* non-decreasing percent, and no progress event follows the run's
\* completion event.
C27_ProgressOrderedNoneAfterCompletion ==
    \A i \in 1..Len(runs) :
        LET e == runs[i].emitted IN
        \A a, b \in 1..Len(e) :
            a < b =>
                /\ (e[a].sig = "progress" /\ e[b].sig = "progress")
                      => e[a].percent <= e[b].percent
                /\ e[a].sig = "completed" => e[b].sig # "progress"

C27_Witness ==
    \E i \in 1..Len(runs) :
        LET e == runs[i].emitted IN
        /\ runs[i].kind = "guid"
        /\ runs[i].status = "finished"
        /\ Len(e) = 7
        /\ e[6] = ProgressEvent(100)
        /\ e[7] = CompletedEvent(TRUE)
====
